---- MODULE Spec2Model ----
(***************************************************************************)
(* gpupgparser: decoding of a PostgreSQL COPY BINARY stream into columns.  *)
(*                                                                         *)
(* The model follows old/test_postgres_binary_cuda_parser_numba_optimized  *)
(* .py: the segmenter parse_binary_chunk, the kernel                       *)
(* decode_all_columns_kernel with its device helpers, and the orchestrator *)
(* PgGpuStreamProcessor (_initialize_device_buffers, _read_and_parse_chunk,*)
(* process_table).  Arrays are 0-based in the source and 1-based here:     *)
(* At(a, i) is a[i] of the source.  Bytes are the naturals 0..255.         *)
(*                                                                         *)
(* TLC's integers are 32 bits wide.  The source builds unsigned 32-bit     *)
(* values in 64-bit integers; here such a value is kept as its top bit and *)
(* its low 31 bits (U31), and every expression of the source is rewritten  *)
(* on that pair without changing its value.                                *)
(***************************************************************************)
EXTENDS Integers, Sequences, FiniteSets, TLC

----------------------------------------------------------------------------
(* Generic helpers.                                                        *)

Min(a, b) == IF a <= b THEN a ELSE b

Max(a, b) == IF a >= b THEN a ELSE b

\* ceil(a / b) as the source writes it: (a + b - 1) // b
CeilDiv(a, b) == (a + b - 1) \div b

\* a[i] of the source (numba wraps a negative index once: a[i + len(a)])
At(a, i) == IF i >= 0 THEN a[i + 1] ELSE a[Len(a) + i + 1]

\* i is an index numba can read without leaving the array
InArray(a, i) == (-Len(a)) <= i /\ i < Len(a)

\* a[lo:hi] of the source, for 0 <= lo
Slice(a, lo, hi) == SubSeq(a, lo + 1, Min(hi, Len(a)))

\* the low 31 bits of the big-endian word b0 b1 b2 b3
U31(b0, b1, b2, b3) == (b0 % 128) * 16777216 + b1 * 65536 + b2 * 256 + b3

\* np.int32(u) of the unsigned word b0 b1 b2 b3: the two's-complement value
AsInt32(b0, b1, b2, b3) ==
    IF b0 >= 128 THEN U31(b0, b1, b2, b3) - 2147483647 - 1
    ELSE U31(b0, b1, b2, b3)

\* np.int16(u) of the unsigned half word b0 b1
AsInt16(b0, b1) ==
    IF b0 >= 128 THEN b0 * 256 + b1 - 65536 ELSE b0 * 256 + b1

----------------------------------------------------------------------------
(* Tuple segmenter: parse_binary_chunk.                                    *)

\* the 11-byte signature "PGCOPY\n\377\r\n\0"
PGCOPY_HEADER == <<80, 71, 67, 79, 80, 89, 10, 255, 13, 10, 0>>

\* a field length read as sign and magnitude
field_len_sign_magnitude(a, pos) == IF At(a, pos) >= 128 THEN 0 - U31(At(a, pos), At(a, pos + 1), At(a, pos + 2), At(a, pos + 3)) ELSE U31(At(a, pos), At(a, pos + 1), At(a, pos + 2), At(a, pos + 3))

\* lines 283-287: the 4-byte field length at pos.  With the top bit set the
\* source computes -((~v + 1) & 0xFFFFFFFF) = v - 2^32.
FieldLenAt(a, pos) ==
    LET b0 == At(a, pos)
        b1 == At(a, pos + 1)
        b2 == At(a, pos + 2)
        b3 == At(a, pos + 3)
    IN  IF b0 >= 128 THEN U31(b0, b1, b2, b3) - 2147483647 - 1
        ELSE U31(b0, b1, b2, b3)

\* lines 249-260: the position after the stream prologue
HeaderSkip(a, header_expected) ==
    IF header_expected /\ Len(a) >= 11 /\ SubSeq(a, 1, 11) = PGCOPY_HEADER
    THEN IF Len(a) >= 11 + 8
         THEN 11 + 4 + 4 + AsInt32(At(a, 15), At(a, 16), At(a, 17), At(a, 18))
         ELSE 11
    ELSE 0

\* The result of a segmentation: the two span lists, the position reached,
\* and st: "ok" when the source returns, "oob" when it reads outside the
\* array (undefined in nopython mode), "loop" when the step budget of the
\* model ran out because the position went backwards.
ParseResult(pos, offs, lens, ret, st) ==
    [pos |-> pos, offs |-> offs, lens |-> lens, ret |-> ret, st |-> st]

\* lines 272-300: the for loop over the fields of one tuple; k iterations
\* are left.  ret = TRUE is the return of line 297.
RECURSIVE ParseFields(_, _, _, _, _, _)
ParseFields(a, k, pos, offs, lens, fuel) ==
    IF k <= 0 THEN ParseResult(pos, offs, lens, FALSE, "ok")
    ELSE IF fuel <= 0 THEN ParseResult(pos, offs, lens, TRUE, "loop")
    ELSE IF pos + 4 > Len(a) THEN ParseResult(pos, offs, lens, FALSE, "ok")
    ELSE IF ~InArray(a, pos) THEN ParseResult(pos, offs, lens, TRUE, "oob")
    ELSE LET field_len == FieldLenAt(a, pos)
             p == pos + 4
         IN  IF field_len = -1
             THEN ParseFields(a, k - 1, p, Append(offs, 0), Append(lens, -1),
                              fuel - 1)
             ELSE IF field_len > Len(a) - p
             THEN ParseResult(p, offs, lens, TRUE, "ok")
             ELSE ParseFields(a, k - 1, p + field_len, Append(offs, p),
                              Append(lens, field_len), fuel - 1)

\* lines 263-300: the while loop over the tuples
RECURSIVE ParseTuples(_, _, _, _, _)
ParseTuples(a, pos, offs, lens, fuel) ==
    IF ~(pos + 2 <= Len(a)) THEN ParseResult(pos, offs, lens, FALSE, "ok")
    ELSE IF fuel <= 0 THEN ParseResult(pos, offs, lens, TRUE, "loop")
    ELSE IF ~InArray(a, pos) THEN ParseResult(pos, offs, lens, TRUE, "oob")
    ELSE LET num_fields == AsInt16(At(a, pos), At(a, pos + 1))
         IN  IF num_fields = -1
             THEN ParseResult(pos, offs, lens, FALSE, "ok")
             ELSE LET r == ParseFields(a, num_fields, pos + 2, offs, lens,
                                       fuel)
                  IN  IF r.ret THEN r
                      ELSE ParseTuples(a, r.pos, r.offs, r.lens, fuel - 1)

\* lines 263-267: the result r of a segmentation of a that left the while
\* loop by the break of line 267, on a field count of -1
TrailerRead(a, r) == r.st = "ok" /\ ~r.ret /\ r.pos + 2 <= Len(a)

\* lines 241-302: parse_binary_chunk(chunk_array, header_expected)
parse_binary_chunk(chunk_array, header_expected) ==
    ParseTuples(chunk_array, HeaderSkip(chunk_array, header_expected),
                <<>>, <<>>, 4 * Len(chunk_array) + 8)

----------------------------------------------------------------------------
(* Column layout: get_column_type, get_column_length.                      *)
(* A column is a record [type, length]; length 0 stands for None.  The     *)
(* type names are the information_schema names the source tests: the      *)
(* prefix test startswith('character') is spelled out over the names the   *)
(* model uses.                                                             *)

IsCharacter(type_name) ==
    type_name \in {"character", "character varying"}

\* lines 72-81; -1 stands for the ValueError
get_column_type(type_name) ==
    IF type_name = "integer" THEN 0
    ELSE IF type_name \in {"numeric", "decimal"} THEN 1
    ELSE IF IsCharacter(type_name) \/ type_name = "text" THEN 2
    ELSE -1

\* get_column_length without the default of line 90
get_column_length_as_declared(type_name, length) ==
    IF type_name = "integer" THEN 4
    ELSE IF type_name \in {"numeric", "decimal"} THEN 8
    ELSE IF IsCharacter(type_name) THEN length
    ELSE IF type_name = "text" THEN 1024
    ELSE -1

\* lines 83-94; -1 stands for the ValueError
get_column_length(type_name, length) ==
    IF type_name = "integer" THEN 4
    ELSE IF type_name \in {"numeric", "decimal"} THEN 8
    ELSE IF IsCharacter(type_name) THEN (IF length # 0 THEN length ELSE 256)
    ELSE IF type_name = "text" THEN 1024
    ELSE -1

\* lines 313-330: the arrays and counters _initialize_device_buffers builds
ColTypes(columns) ==
    [c \in 1..Len(columns) |-> get_column_type(columns[c].type)]

ColLengths(columns) ==
    [c \in 1..Len(columns) |->
        get_column_length(columns[c].type, columns[c].length)]

NumIntCols(columns) ==
    Cardinality({c \in 1..Len(columns) : ColTypes(columns)[c] <= 1})

NumStrCols(columns) ==
    Cardinality({c \in 1..Len(columns) : ColTypes(columns)[c] = 2})

RECURSIVE MaxOver(_, _)
MaxOver(S, f) ==
    IF S = {} THEN 0
    ELSE LET x == CHOOSE y \in S : TRUE
         IN  Max(f[x], MaxOver(S \ {x}, f))

MaxStrLength(columns) ==
    MaxOver({c \in 1..Len(columns) : ColTypes(columns)[c] = 2},
            ColLengths(columns))

\* a resolver that raises for no column
LayoutErrorNever(columns) == FALSE

\* lines 319-330: get_column_type or get_column_length raises ValueError
\* for some column, before the buffers are allocated (lines 333-360)
LayoutError(columns) ==
    \E c \in 1..Len(columns) :
        \/ get_column_type(columns[c].type) = -1
        \/ get_column_length(columns[c].type, columns[c].length) = -1

\* lines 335-337: the sizes of the three device buffers.  A buffer that the
\* source leaves as None (lines 346-360: no numeric column, or no text
\* column) is the empty array here.
IntBufferSize(columns, chunk_size) == chunk_size * NumIntCols(columns)

StrBufferSize(columns, chunk_size) ==
    chunk_size * NumStrCols(columns) * MaxStrLength(columns)

StrNullPosSize(columns, chunk_size) == chunk_size * NumStrCols(columns)

----------------------------------------------------------------------------
(* Device helpers of the kernel.                                           *)

\* lines 111-114
check_bounds(data, pos, size) == pos >= 0 /\ pos + size <= Len(data)

\* lines 116-135: with the top bit set the source returns
\* -(val & 0x7FFFFFFF), the negated low 31 bits
decode_int32(data, pos) ==
    IF ~check_bounds(data, pos, 4) THEN 0
    ELSE LET b0 == At(data, pos)
             b1 == At(data, pos + 1)
             b2 == At(data, pos + 2)
             b3 == At(data, pos + 3)
         IN  IF b0 >= 128 THEN -U31(b0, b1, b2, b3)
             ELSE U31(b0, b1, b2, b3)

\* line 149: (val << 8) | b on the 64-bit word val, kept as four 16-bit
\* limbs from the most significant down; the bits shifted out of the top
\* limb are lost
ShiftInByte(val, b) ==
    <<(val[1] % 256) * 256 + val[2] \div 256,
      (val[2] % 256) * 256 + val[3] \div 256,
      (val[3] % 256) * 256 + val[4] \div 256,
      (val[4] % 256) * 256 + b>>

\* lines 147-149: the word val after the bytes p + j .. p + 7 of src have
\* been shifted in
RECURSIVE PackBytes(_, _, _, _)
PackBytes(src, p, j, val) ==
    IF j >= 8 THEN val
    ELSE PackBytes(src, p, j + 1, ShiftInByte(val, At(src, p + j)))

\* lines 147-149: the 64-bit word val built from eight source bytes
Word8(src, p) == PackBytes(src, p, 0, <<0, 0, 0, 0>>)

\* a word taken apart from its least significant byte up
word_byte_reversed(val, j) == IF j % 2 = 0 THEN val[4 - j \div 2] % 256 ELSE val[4 - j \div 2] \div 256

\* line 153: (val >> ((7 - j) * 8)) & 0xFF; the shift takes whole bytes, so
\* the result is the high or the low byte of one limb
WordByte(val, j) == IF j % 2 = 0 THEN val[1 + j \div 2] \div 256 ELSE val[1 + j \div 2] % 256

\* lines 137-157: the writes <<index in dst, byte>> of one call
bulk_copy_64bytes(src, src_pos, dst_pos, size) ==
    LET n == Min(size, 64)
        starts == {i \in 0..(n - 1) : i % 8 = 0}
    IN  UNION { IF i + 8 <= n
                THEN {<<dst_pos + i + j, WordByte(Word8(src, src_pos + i), j)>>
                        : j \in 0..7}
                ELSE {<<dst_pos + i + j, At(src, src_pos + i + j)>>
                        : j \in 0..(n - i - 1)}
              : i \in starts }

----------------------------------------------------------------------------
(* decode_all_columns_kernel.  chunk_size is the kernel's parameter of     *)
(* that name (process_table passes rows_in_chunk); rows and columns are    *)
(* 0-based.  The kernel's effect is the set of writes it makes to each of  *)
(* the three output buffers: pairs <<index, value>>.                       *)

\* lines 210-212: the bytes the block copy stores for one text field
TextCopyWrites(raw_data, pos, dst_pos, valid_length) ==
    UNION { bulk_copy_64bytes(raw_data, pos + i, dst_pos + i,
                              Min(64, valid_length - i))
            : i \in {k \in 0..(valid_length - 1) : k % 64 = 0} }

\* str_outputs[dst_pos + i] as the worker reads it back after its copy
StoredByte(writes, idx) ==
    LET hit == {w \in writes : w[1] = idx}
    IN  IF hit = {} THEN 0 ELSE (CHOOSE w \in hit : TRUE)[2]

\* the value a set of writes leaves at idx of a buffer that held old there
StoredByteOr(writes, idx, old) ==
    LET hit == {w \in writes : w[1] = idx}
    IN  IF hit = {} THEN old ELSE (CHOOSE w \in hit : TRUE)[2]

\* lines 219-222: the first zero byte among the copied bytes
RECURSIVE FindNull(_, _, _, _)
FindNull(writes, dst_pos, i, valid_length) ==
    IF i >= valid_length THEN valid_length
    ELSE IF StoredByte(writes, dst_pos + i) = 0 THEN i
    ELSE FindNull(writes, dst_pos, i + 1, valid_length)

\* lines 225-226
RECURSIVE TrimLeft(_, _, _, _)
TrimLeft(writes, dst_pos, valid_start, valid_end) ==
    IF valid_start < valid_end
       /\ StoredByte(writes, dst_pos + valid_start) <= 32
    THEN TrimLeft(writes, dst_pos, valid_start + 1, valid_end)
    ELSE valid_start

\* lines 228-229
RECURSIVE TrimRight(_, _, _, _)
TrimRight(writes, dst_pos, valid_start, valid_end) ==
    IF valid_end > valid_start
       /\ StoredByte(writes, dst_pos + valid_end - 1) <= 32
    THEN TrimRight(writes, dst_pos, valid_start, valid_end - 1)
    ELSE valid_end

\* a | b on naturals
RECURSIVE BitOr(_, _)
BitOr(a, b) ==
    IF a = 0 THEN b
    ELSE IF b = 0 THEN a
    ELSE 2 * BitOr(a \div 2, b \div 2) + Max(a % 2, b % 2)

\* line 234: (valid_start << 16) | valid_end, as it is stored in the
\* int32 array str_null_pos (line 356): the low 32 bits, bit 31 the sign
PackRange(valid_start, valid_end) ==
    LET high == BitOr(valid_start, valid_end \div 65536) % 65536
        low == valid_end % 65536
    IN  IF high >= 32768 THEN (high - 65536) * 65536 + low
        ELSE high * 65536 + low

\* lines 178-236: the writes of the worker's visit to cell (row, col):
\* a record of three sets of <<index, value>>, one per output buffer
CellWrites(raw_data, field_offsets, field_lengths, col_types, col_lengths, chunk_size, num_cols, row, col) ==
    LET field_idx == row * num_cols + col
        pos == At(field_offsets, field_idx)
        length == At(field_lengths, field_idx)
        slot == col * chunk_size + row
    IN  IF At(col_types, col) <= 1
        THEN [ints |-> {<<slot, IF length = -1 THEN 0
                                 ELSE decode_int32(raw_data, pos)>>},
              strs |-> {}, nulls |-> {}]
        ELSE IF length = -1
        THEN [ints |-> {}, strs |-> {}, nulls |-> {<<slot, 0>>}]
        ELSE LET max_length == At(col_lengths, col)
                 dst_pos == slot * max_length
                 valid_length == Min(length, max_length)
                 copy == TextCopyWrites(raw_data, pos, dst_pos, valid_length)
                 nul == FindNull(copy, dst_pos, 0, valid_length)
                 valid_start == TrimLeft(copy, dst_pos, 0, nul)
                 valid_end == TrimRight(copy, dst_pos, valid_start, nul)
             IN  [ints |-> {}, strs |-> copy,
                  nulls |-> {<<slot, IF valid_end > valid_start
                                      THEN PackRange(valid_start, valid_end)
                                      ELSE 0>>}]

\* lines 172-176, 239: the rows worker t visits with the stride loop
WorkerRows(t, stride, chunk_size) ==
    {r \in 0..(chunk_size - 1) : r >= t /\ (r - t) % stride = 0}

\* lines 524-528: the launch configuration of process_table
threads_per_block == 256

Blocks(rows_in_chunk) ==
    Min(1024, Max(128, CeilDiv(rows_in_chunk, threads_per_block)))

\* the rows visited by the whole grid (workers t >= chunk_size visit none)
KernelRows(chunk_size) ==
    LET stride == threads_per_block * Blocks(chunk_size)
    IN  UNION {WorkerRows(t, stride, chunk_size)
                 : t \in 0..(Min(stride, chunk_size) - 1)}

\* the writes of one launch, per buffer
KernelWrites(raw_data, field_offsets, field_lengths, col_types, col_lengths, chunk_size, num_cols) ==
    LET cells == KernelRows(chunk_size) \X (0..(num_cols - 1))
        W(c) == CellWrites(raw_data, field_offsets, field_lengths, col_types,
                           col_lengths, chunk_size, num_cols, c[1], c[2])
    IN  [ints |-> UNION {W(c).ints : c \in cells},
         strs |-> UNION {W(c).strs : c \in cells},
         nulls |-> UNION {W(c).nulls : c \in cells}]

\* a write of the set falls outside a buffer of n elements
OutOfBounds(writes, n) == \E w \in writes : w[1] < 0 \/ w[1] >= n

\* the buffer after the writes that fall inside it
ApplyWrites(buf, writes) ==
    [i \in 1..Len(buf) |-> StoredByteOr(writes, i - 1, buf[i])]

----------------------------------------------------------------------------
(* Host-side collection of process_table (lines 539-600).  A decoded       *)
(* string is the sequence of its character codes.                          *)

\* lines 540-550, 600: the number of numeric (text) columns before column i
IntColIdx(col_types, i) ==
    Cardinality({c \in 0..(i - 1) : At(col_types, c) <= 1})

StrColIdx(col_types, i) ==
    Cardinality({c \in 0..(i - 1) : At(col_types, c) = 2})

\* lines 583-586: only printable ASCII is kept
IsPrintable(b) == b >= 32 /\ b <= 126

\* line 592: str.strip() on a string of printable ASCII removes the blanks
RECURSIVE Strip(_)
Strip(s) ==
    IF s = <<>> THEN s
    ELSE IF Head(s) = 32 THEN Strip(Tail(s))
    ELSE IF s[Len(s)] = 32 THEN Strip(SubSeq(s, 1, Len(s) - 1))
    ELSE s

\* lines 569-598: the string of one row, from the row's arena slot
\* data_row (length bytes) and its packed range end_pos
HostString(data_row, end_pos) ==
    IF end_pos = 0 THEN <<>>
    ELSE IF end_pos > 0
    THEN LET start_pos == (end_pos \div 65536) % 65536
             e == end_pos % 65536
         IN  IF e > start_pos
             THEN Strip(SelectSeq(Slice(data_row, start_pos, e), IsPrintable))
             ELSE <<>>
    ELSE <<>>

\* a collection that appends a string only when it is not empty
CollectColumnNonEmpty(int_buf, str_buf, null_pos, col_types, col_lengths, rows_in_chunk, i) ==
    IF At(col_types, i) <= 1
    THEN Slice(int_buf, IntColIdx(col_types, i) * rows_in_chunk,
               (IntColIdx(col_types, i) + 1) * rows_in_chunk)
    ELSE LET k == StrColIdx(col_types, i)
             length == At(col_lengths, i)
             host_array == Slice(str_buf, k * rows_in_chunk * length,
                                 (k + 1) * rows_in_chunk * length)
             null_positions == Slice(null_pos, k * rows_in_chunk,
                                     (k + 1) * rows_in_chunk)
             all == [row \in 1..rows_in_chunk |->
                        HostString(Slice(host_array, (row - 1) * length,
                                         row * length),
                                   null_positions[row])]
         IN  SelectSeq(all, LAMBDA x : x # <<>>)

\* lines 543-600: the values appended to results for column i (0-based)
CollectColumn(int_buf, str_buf, null_pos, col_types, col_lengths, rows_in_chunk, i) ==
    IF At(col_types, i) <= 1
    THEN LET k == IntColIdx(col_types, i)
         IN  Slice(int_buf, k * rows_in_chunk, (k + 1) * rows_in_chunk)
    ELSE LET k == StrColIdx(col_types, i)
             length == At(col_lengths, i)
             str_start == k * rows_in_chunk * length
             host_array == Slice(str_buf, str_start,
                                 (k + 1) * rows_in_chunk * length)
             null_positions == Slice(null_pos, k * rows_in_chunk,
                                     (k + 1) * rows_in_chunk)
         IN  [row \in 1..rows_in_chunk |->
                 HostString(Slice(host_array, (row - 1) * length,
                                  row * length),
                            null_positions[row])]

----------------------------------------------------------------------------
(* Inputs: tables and their COPY BINARY streams (the wire format the       *)
(* segmenter reads: signature, flags, extension length, extension, then   *)
(* tuples, each an int16 field count followed by its fields as int32       *)
(* length and bytes, then the trailer int16 -1).  A field of a row is its  *)
(* wire bytes, or NullField.                                               *)

NullField == <<-1>>

\* the 4 big-endian bytes of the two's-complement int32 v
EncodeInt32(v) ==
    <<(v \div 16777216) % 256, (v \div 65536) % 256, (v \div 256) % 256,
      v % 256>>

EncodeField(f) ==
    IF f = NullField THEN <<255, 255, 255, 255>>
    ELSE EncodeInt32(Len(f)) \o f

RECURSIVE EncodeFields(_)
EncodeFields(row) ==
    IF row = <<>> THEN <<>>
    ELSE EncodeField(Head(row)) \o EncodeFields(Tail(row))

EncodeTuple(row) ==
    <<Len(row) \div 256, Len(row) % 256>> \o EncodeFields(row)

RECURSIVE EncodeTuples(_)
EncodeTuples(rows) ==
    IF rows = <<>> THEN <<>>
    ELSE EncodeTuple(Head(rows)) \o EncodeTuples(Tail(rows))

Prologue(ext) ==
    PGCOPY_HEADER \o <<0, 0, 0, 0>> \o EncodeInt32(Len(ext)) \o ext

EncodeStream(t) ==
    Prologue(t.ext) \o EncodeTuples(t.rows) \o <<255, 255>>

\* the same tuples and trailer without the prologue: not a valid stream
HeadlessStream(t) == EncodeTuples(t.rows) \o <<255, 255>>

Col(type, length) == [type |-> type, length |-> length]

I32(v) == EncodeInt32(v)

\* "hello", "  pad  \0garbage", "ab", "cd"
TxtHello == <<104, 101, 108, 108, 111>>

TxtPad ==
    <<32, 32, 112, 97, 100, 32, 32, 0, 103, 97, 114, 98, 97, 103, 101>>

TxtAb == <<97, 98>>

TxtCd == <<99, 100>>

\* (integer, character varying(8)): one row (42, "hello")
TableHello ==
    [columns |-> <<Col("integer", 0), Col("character varying", 8)>>,
     rows |-> << <<I32(42), TxtHello>> >>,
     ext |-> <<>>]

\* (integer, numeric): negative values, a NULL in the last column
TableNumeric ==
    [columns |-> <<Col("integer", 0), Col("numeric", 0)>>,
     rows |-> << <<I32(1), I32(2)>>, <<I32(-1), NullField>>,
                 <<NullField, I32(5)>> >>,
     ext |-> <<>>]

\* (character varying(16)): padded text with an embedded zero byte, a NULL
TablePad ==
    [columns |-> <<Col("character varying", 16)>>,
     rows |-> << <<TxtPad>>, <<NullField>>, <<TxtAb>> >>,
     ext |-> <<>>]

\* (character(2), integer): text before a number, a NULL number last
TableMixed ==
    [columns |-> <<Col("character", 2), Col("integer", 0)>>,
     rows |-> << <<TxtAb, I32(5)>>, <<TxtCd, I32(6)>>,
                 <<TxtAb, NullField>> >>,
     ext |-> <<>>]

\* (integer, character varying(8), character varying(8), integer): text
\* between numbers, a NULL text, a row of NULLs
TableWide ==
    [columns |-> <<Col("integer", 0), Col("character varying", 8),
                   Col("character varying", 8), Col("integer", 0)>>,
     rows |-> << <<I32(1), TxtHello, NullField, I32(7)>>,
                 <<NullField, NullField, NullField, NullField>> >>,
     ext |-> <<>>]

\* (character varying(16), character(2)): text columns of different widths
TableWidths ==
    [columns |-> <<Col("character varying", 16), Col("character", 2)>>,
     rows |-> << <<TxtPad, TxtAb>> >>,
     ext |-> <<>>]

\* (character varying(4)): bytes that are no printable ASCII and no valid
\* UTF-8: FF 'A' 01 C8, then C3 '(', then C8 C9
TableBytes ==
    [columns |-> <<Col("character varying", 4)>>,
     rows |-> << <<<<255, 65, 1, 200>>>>, <<<<195, 40>>>>, <<<<200, 201>>>> >>,
     ext |-> <<>>]

\* the 24 letters "abc...x"
TxtLong == [i \in 1..24 |-> 96 + i]

\* (character varying(24)): a short text, a text longer than a read block
\* that holds the first row, a NULL in the last field of the stream
TableTrailing ==
    [columns |-> <<Col("character varying", 24)>>,
     rows |-> << <<TxtCd>>, <<TxtLong>>, <<NullField>> >>,
     ext |-> <<>>]

\* (integer, integer): the value -4, whose bytes FF FF FF FC are a negative
\* length when a window begins inside the row
TableNegative ==
    [columns |-> <<Col("integer", 0), Col("integer", 0)>>,
     rows |-> << <<I32(7), I32(-4)>>, <<I32(1), I32(2)>> >>,
     ext |-> <<>>]

Tables ==
    {TableHello, TableNumeric, TablePad, TableMixed, TableWide, TableWidths,
     TableBytes, TableTrailing, TableNegative}

\* the largest read size tried: every stream above fits in one read
MaxChunkSize == 76

\* the largest row ceiling tried, in place of the 4096 of ChunkConfig
MaxRowsCap == 2

----------------------------------------------------------------------------
(* The orchestrator: PgGpuStreamProcessor.                                 *)

VARIABLES
    table,           \* the table behind the stream (history)
    buffer,          \* the bytes of the BytesIO that process_table reads
    chunk_size,      \* the read size in bytes handed to _read_and_parse_chunk
    config,          \* ChunkConfig: rows_per_chunk, num_chunks
    pc,              \* the position of process_table
    tell,            \* buffer.tell()
    remaining_data,  \* self._remaining_data; <<>> when the attribute is absent
    header_expected, \* self.header_expected
    chunk_array,     \* the window of the chunk being read
    field_offsets,   \* the spans of the chunk being read
    field_lengths,
    attempts,        \* the retry counter of _read_and_parse_chunk
    rows_in_chunk,
    int_buffer,      \* the three device buffers of process_table
    str_buffer,
    str_null_pos,
    results,         \* per column, the values collected so far
    chunk_idx,
    num_chunks,
    win_start,       \* history: the offset in buffer of chunk_array[0]
    fed,             \* history: the fields handed to the kernel, in order
    ended,           \* history: why the chunk loop ended
    oob,             \* history: some kernel write fell outside its buffer
    transfer_failed, \* history: some transfer to the device raised
    buffers_live,    \* history: the three device buffers are allocated
    synced,          \* history: cuda.synchronize() returned since the last
                     \* kernel launch
    trailer_read     \* history: "chunk" when a segmentation of the current
                     \* chunk read the field count -1 that ends the stream,
                     \* "earlier" when one of an earlier chunk did, else "no"

\* One launch of decode_all_columns_kernel seen worker by worker
VARIABLES
    grid_size,       \* cuda.gridDim.x: the blocks of the launch
    block_size,      \* cuda.blockDim.x: the threads of a block
    kernel_rows,     \* the chunk_size argument of the kernel
    kernel_cols,     \* the num_cols argument of the kernel
    worker_row,      \* per worker <<block_id, thread_id>>, its variable row
    visits           \* history: per cell <<row, col>> processed so far, the
                     \* workers that processed it, in order

\* The block copy of one text cell (lines 206-212)
VARIABLES
    copy_src,        \* raw_data
    copy_pos,        \* pos: the offset of the field in raw_data
    copy_length,     \* length: the length of the field
    copy_width,      \* max_length: the width of the column
    copy_dst,        \* str_outputs
    copy_dst_pos,    \* dst_pos: the offset of the cell's slot
    copy_i,          \* the loop variable i of line 210
    copy_written     \* history: the indices of str_outputs written so far

stride_vars ==
    <<grid_size, block_size, kernel_rows, kernel_cols, worker_row, visits>>

copy_vars ==
    <<copy_src, copy_pos, copy_length, copy_width, copy_dst, copy_dst_pos,
      copy_i, copy_written>>

kernel_vars == <<stride_vars, copy_vars>>

\* The read size of process_table (lines 465-480)
VARIABLES
    sz_total_rows,   \* the rows of the table; ChunkConfig(total_rows)
    sz_row_bytes,    \* the bytes of one tuple of the stream
    sz_num_cols,     \* len(columns)
    sz_chunk_size    \* chunk_size of line 474, 476 or 479; 0 before

sizing_vars == <<sz_total_rows, sz_row_bytes, sz_num_cols, sz_chunk_size>>

\* One call of parse_binary_chunk(chunk_array, False), tuple by tuple
VARIABLES
    seg_window,      \* chunk_array
    seg_pos,         \* pos
    seg_state        \* "run" inside the while loop, "done" after it,
                     \* "undefined" after a read outside the array

segment_vars == <<seg_window, seg_pos, seg_state>>

\* One call of PgGpuProcessor.process_table_chunk or of
\* PgGpuProcessor._process_data_in_chunks (src/src/main.py)
VARIABLES
    main_method,         \* "chunk": process_table_chunk,
                         \* "chunks": _process_data_in_chunks
    main_pc,             \* the position in the method
    main_num_columns,    \* len(columns)
    main_chunk_size,     \* chunk_size; chunk_config.rows_per_chunk
    main_total_rows,     \* total_rows
    main_rows_in_chunk,  \* rows_in_chunk; current_chunk_size
    main_obtained,       \* buffer sets got from initialize_device_buffers
    main_cleaned         \* buffer sets passed to cleanup_buffers

main_vars ==
    <<main_method, main_pc, main_num_columns, main_chunk_size,
      main_total_rows, main_rows_in_chunk, main_obtained, main_cleaned>>

\* One string range, packed by the kernel and unpacked by the host
VARIABLES
    rng_width,       \* max_length, the width of the column
    rng_start,       \* valid_start
    rng_end,         \* valid_end
    rng_stored,      \* the entry of str_null_pos, an int32
    rng_result,      \* <<start_pos, end_pos>> of the host, or <<>>
    rng_pc           \* "kernel", "host", "done"

range_vars ==
    <<rng_width, rng_start, rng_end, rng_stored, rng_result, rng_pc>>

side_vars == <<kernel_vars, sizing_vars, segment_vars, main_vars, range_vars>>

vars ==
    <<table, buffer, chunk_size, config, pc, tell, remaining_data,
      header_expected, chunk_array, field_offsets, field_lengths, attempts,
      rows_in_chunk, int_buffer, str_buffer, str_null_pos, results,
      chunk_idx, num_chunks, win_start, fed, ended, oob, transfer_failed,
      buffers_live, synced, trailer_read, grid_size, block_size,
      kernel_rows, kernel_cols, worker_row, visits, copy_src, copy_pos,
      copy_length, copy_width, copy_dst, copy_dst_pos, copy_i, copy_written,
      sz_total_rows, sz_row_bytes, sz_num_cols, sz_chunk_size,
      seg_window, seg_pos, seg_state,
      main_method, main_pc, main_num_columns, main_chunk_size,
      main_total_rows, main_rows_in_chunk, main_obtained, main_cleaned,
      rng_width, rng_start, rng_end, rng_stored, rng_result, rng_pc>>

\* no launch is followed worker by worker
StrideIdle ==
    /\ grid_size = 0
    /\ block_size = 0
    /\ kernel_rows = 0
    /\ kernel_cols = 0
    /\ worker_row = <<>>
    /\ visits = <<>>

\* no block copy is followed step by step
CopyIdle ==
    /\ copy_src = <<>>
    /\ copy_pos = 0
    /\ copy_length = 0
    /\ copy_width = 0
    /\ copy_dst = <<>>
    /\ copy_dst_pos = 0
    /\ copy_i = 0
    /\ copy_written = {}

KernelIdle == StrideIdle /\ CopyIdle

\* no read size is being computed
SizingIdle ==
    /\ sz_total_rows = 0
    /\ sz_row_bytes = 0
    /\ sz_num_cols = 0
    /\ sz_chunk_size = 0

\* no segmentation is followed tuple by tuple
SegmentIdle ==
    /\ seg_window = <<>>
    /\ seg_pos = 0
    /\ seg_state = "idle"

\* no method of PgGpuProcessor is running
MainIdle ==
    /\ main_method = "none"
    /\ main_pc = "idle"
    /\ main_num_columns = 0
    /\ main_chunk_size = 0
    /\ main_total_rows = 0
    /\ main_rows_in_chunk = 0
    /\ main_obtained = 0
    /\ main_cleaned = 0

\* no range is followed
RangeIdle ==
    /\ rng_width = 0
    /\ rng_start = 0
    /\ rng_end = 0
    /\ rng_stored = 0
    /\ rng_result = <<>>
    /\ rng_pc = "idle"

SideIdle ==
    KernelIdle /\ SizingIdle /\ SegmentIdle /\ MainIdle /\ RangeIdle

\* lines 96-102: ChunkConfig(total_rows); cap stands for the 4096 of line 99
ChunkConfig(total_rows, cap) ==
    [rows_per_chunk |-> Min(cap, total_rows),
     num_chunks |-> CeilDiv(total_rows, Min(cap, total_rows))]

\* lines 304-308 and load_table_optimized, lines 660-664: the processor as
\* constructed, for a table, its stream, a read size and a row ceiling.
\* process_table derives the read size from the stream (lines 468-480,
\* between 512 KiB and 2 MiB) and ChunkConfig fixes the ceiling at 4096;
\* here both are inputs, scaled to streams of some tens of bytes, so that
\* windows end inside rows and the ceiling binds.  A stream is the valid
\* encoding of its table or the same without the prologue.
Init ==
    /\ table \in Tables
    /\ buffer \in {EncodeStream(table), HeadlessStream(table)}
    /\ chunk_size \in 1..MaxChunkSize
    /\ \E cap \in 1..MaxRowsCap : config = ChunkConfig(Len(table.rows), cap)
    /\ pc = "start"
    /\ tell = 0
    /\ remaining_data = <<>>
    /\ header_expected = TRUE
    /\ chunk_array = <<>>
    /\ field_offsets = <<>>
    /\ field_lengths = <<>>
    /\ attempts = 0
    /\ rows_in_chunk = 0
    /\ int_buffer = <<>>
    /\ str_buffer = <<>>
    /\ str_null_pos = <<>>
    /\ results = <<>>
    /\ chunk_idx = 0
    /\ num_chunks = 0
    /\ win_start = 0
    /\ fed = <<>>
    /\ ended = "running"
    /\ oob = FALSE
    /\ transfer_failed = FALSE
    /\ buffers_live = FALSE
    /\ synced = TRUE
    /\ trailer_read = "no"
    /\ SideIdle

columns == table.columns

num_cols == Len(table.columns)

Zeros(n) == [i \in 1..n |-> 0]

\* copy_data.read(n) at position p: the bytes returned
ReadAt(p, n) == Slice(buffer, p, p + n)

\* a[lo:] of the source (a negative lo counts from the end)
SliceFrom(a, lo) ==
    IF lo >= 0 THEN Slice(a, lo, Len(a))
    ELSE Slice(a, Max(0, Len(a) + lo), Len(a))

\* the for loop of line 503 moves on to the next chunk, or ends
NextChunk(idx) == IF idx + 1 < num_chunks THEN "read" ELSE "final"

\* lines 449-502: process_table up to the chunk loop.  The ValueError of
\* an unsupported column type leaves _initialize_device_buffers (line 484)
\* and process_table before any buffer is allocated.
process_table_begin ==
    /\ UNCHANGED side_vars
    /\ UNCHANGED <<oob, transfer_failed, synced, trailer_read>>
    /\ buffers_live' = ~LayoutError(columns)
    /\ pc = "start"
    /\ IF LayoutError(columns)
       THEN /\ pc' = "error"
            /\ ended' = "error"
            /\ UNCHANGED <<int_buffer, str_buffer, str_null_pos, results,
                           num_chunks, tell, chunk_idx>>
       ELSE /\ int_buffer' =
                  Zeros(IntBufferSize(columns, config.rows_per_chunk))
            /\ str_buffer' =
                  Zeros(StrBufferSize(columns, config.rows_per_chunk))
            /\ str_null_pos' =
                  Zeros(StrNullPosSize(columns, config.rows_per_chunk))
            /\ results' = [c \in 1..num_cols |-> <<>>]
            /\ num_chunks' =
                  Min(config.num_chunks, CeilDiv(Len(buffer), chunk_size))
            /\ tell' = 0
            /\ chunk_idx' = 0
            /\ pc' = IF num_chunks' > 0 THEN "read" ELSE "final"
            /\ ended' = IF num_chunks' > 0 THEN ended ELSE "limit"
    /\ UNCHANGED <<table, buffer, chunk_size, config, remaining_data,
                   header_expected, chunk_array, field_offsets, field_lengths,
                   attempts, rows_in_chunk, win_start, fed>>

\* lines 376-396: _read_and_parse_chunk up to its retry loop
read_begin ==
    /\ UNCHANGED side_vars
    /\ UNCHANGED <<oob, transfer_failed, buffers_live, synced>>
    /\ trailer_read' = IF trailer_read = "chunk" THEN "earlier" ELSE trailer_read
    /\ pc = "read"
    /\ IF remaining_data # <<>>
       THEN /\ chunk_array' = remaining_data
            /\ remaining_data' = <<>>
            /\ win_start' = tell - Len(remaining_data)
            /\ pc' = "parse"
            /\ UNCHANGED <<tell, ended>>
       ELSE /\ UNCHANGED remaining_data
            /\ IF ReadAt(tell, chunk_size) # <<>>
               THEN /\ chunk_array' = ReadAt(tell, chunk_size)
                    /\ tell' = tell + Len(chunk_array')
                    /\ win_start' = tell
                    /\ pc' = "parse"
                    /\ UNCHANGED ended
               ELSE IF tell > 0 /\ ReadAt(0, chunk_size) # <<>>
               THEN \* lines 384-387: seek(0) and read again
                    /\ chunk_array' = ReadAt(0, chunk_size)
                    /\ tell' = Len(chunk_array')
                    /\ win_start' = 0
                    /\ pc' = "parse"
                    /\ UNCHANGED ended
               ELSE \* return None; line 509-511: break
                    /\ pc' = "final"
                    /\ ended' = "nodata"
                    /\ UNCHANGED <<chunk_array, tell, win_start>>
    /\ attempts' = 0
    /\ field_offsets' = <<>>
    /\ field_lengths' = <<>>
    /\ UNCHANGED <<table, buffer, chunk_size, config, header_expected,
                   rows_in_chunk, int_buffer, str_buffer, str_null_pos,
                   results, chunk_idx, num_chunks, fed>>

\* line 404
LastFieldEnd(offs, lens) == offs[Len(offs)] + Max(0, lens[Len(lens)])

\* line 395
max_attempts == 3

\* a retry loop that reads on after every segmentation
retry_always(offs, lens, a) == TRUE

\* lines 403-405 and 411: the loop reads on unless the segmentation gave a
\* span whose end lies in the window
RetryNeeded(offs, lens, a) == ~(Len(offs) > 0 /\ LastFieldEnd(offs, lens) <= Len(a))

\* lines 398-419: one turn of the retry loop
parse_attempt ==
    /\ UNCHANGED side_vars
    /\ UNCHANGED <<oob, transfer_failed, buffers_live, synced>>
    /\ trailer_read' =
          LET r == parse_binary_chunk(chunk_array, header_expected)
          IN  IF /\ trailer_read = "no"
                 /\ TrailerRead(chunk_array, r)
                 /\ win_start + r.pos + 2 = Len(buffer)
              THEN "chunk" ELSE trailer_read
    /\ pc = "parse"
    /\ attempts < max_attempts
    /\ LET r == parse_binary_chunk(chunk_array, header_expected)
           more == ReadAt(tell, chunk_size)
       IN  IF r.st # "ok"
           THEN /\ pc' = "undefined"
                /\ UNCHANGED <<field_offsets, field_lengths, header_expected,
                               remaining_data, chunk_array, attempts, tell>>
           ELSE /\ field_offsets' = r.offs
                /\ field_lengths' = r.lens
                /\ header_expected' = FALSE
                /\ IF ~RetryNeeded(r.offs, r.lens, chunk_array)
                   THEN /\ remaining_data' =
                              IF LastFieldEnd(r.offs, r.lens) < Len(chunk_array)
                              THEN SliceFrom(chunk_array,
                                             LastFieldEnd(r.offs, r.lens))
                              ELSE remaining_data
                        /\ pc' = "cap"
                        /\ UNCHANGED <<chunk_array, attempts, tell>>
                   ELSE IF more = <<>>
                   THEN /\ pc' = "cap"
                        /\ UNCHANGED <<remaining_data, chunk_array, attempts,
                                       tell>>
                   ELSE /\ chunk_array' = chunk_array \o more
                        /\ tell' = tell + Len(more)
                        /\ attempts' = attempts + 1
                        /\ pc' = IF attempts + 1 < max_attempts
                                 THEN "parse" ELSE "cap"
                        /\ UNCHANGED remaining_data
    /\ UNCHANGED <<table, buffer, chunk_size, config, rows_in_chunk,
                   int_buffer, str_buffer, str_null_pos, results, chunk_idx,
                   num_chunks, win_start, fed, ended>>

\* the bytes of one span of the window, as the kernel is given them
FieldContent(a, off, len) ==
    IF len = -1 THEN NullField
    ELSE IF len < 0 THEN <<>>
    ELSE Slice(a, off, off + len)

\* the row count without the ceiling of line 427
rows_in_chunk_uncapped(n_spans, n_cols, rows_per_chunk) == n_spans \div n_cols

\* lines 426-427: the rows of the chunk, capped to the row ceiling
RowsInChunk(n_spans, n_cols, rows_per_chunk) == Min(n_spans \div n_cols, rows_per_chunk)

\* lines 421-447 and 509-521: the row ceiling, the transfer, and the
\* return to process_table
cap_and_transfer ==
    /\ UNCHANGED side_vars
    /\ UNCHANGED <<oob, transfer_failed, buffers_live, synced, trailer_read>>
    /\ pc = "cap"
    /\ IF Len(field_offsets) = 0
       THEN /\ pc' = "final"
            /\ ended' = "nodata"
            /\ UNCHANGED <<field_offsets, field_lengths, rows_in_chunk,
                           chunk_idx, fed>>
       ELSE LET rows == RowsInChunk(Len(field_offsets), num_cols,
                                    config.rows_per_chunk)
            IN  /\ rows_in_chunk' = rows
                /\ field_offsets' = SubSeq(field_offsets, 1, rows * num_cols)
                /\ field_lengths' = SubSeq(field_lengths, 1, rows * num_cols)
                /\ fed' = fed \o [k \in 1..(rows * num_cols) |->
                                   FieldContent(chunk_array, field_offsets[k],
                                                field_lengths[k])]
                /\ IF rows = 0
                   THEN /\ chunk_idx' = chunk_idx + 1
                        /\ pc' = NextChunk(chunk_idx)
                        /\ ended' = IF NextChunk(chunk_idx) = "final"
                                    THEN "limit" ELSE ended
                   ELSE /\ pc' = "kernel"
                        /\ UNCHANGED <<chunk_idx, ended>>
    /\ UNCHANGED <<table, buffer, chunk_size, config, tell, remaining_data,
                   header_expected, chunk_array, attempts, int_buffer,
                   str_buffer, str_null_pos, results, num_chunks, win_start>>

\* the writes of the launch of lines 532-537
LaunchWrites ==
    KernelWrites(chunk_array, field_offsets, field_lengths, ColTypes(columns),
                 ColLengths(columns), rows_in_chunk, num_cols)

\* the cells of the launch, row by row, the columns of a row in the
\* ascending order in which the row's worker visits them (line 177)
LaunchCells ==
    [k \in 1..(rows_in_chunk * num_cols) |->
        <<(k - 1) \div num_cols, (k - 1) % num_cols>>]

\* the arena after the launch.  Of two writes of one worker to the same
\* place the later column's stays.  Cells of different rows share no
\* arena place in the tables tried here (DifferentRowsDisjoint), so the
\* order among the workers does not show.
LaunchArena ==
    LET W(c) == CellWrites(chunk_array, field_offsets, field_lengths,
                           ColTypes(columns), ColLengths(columns),
                           rows_in_chunk, num_cols, c[1], c[2]).strs
        n == rows_in_chunk * num_cols
        after[k \in 0..n] ==
            IF k = 0 THEN str_buffer
            ELSE ApplyWrites(after[k - 1], W(LaunchCells[k]))
    IN  after[n]

\* some write of the launch falls outside the buffer it is made to
LaunchOutOfBounds ==
    \/ OutOfBounds(LaunchWrites.ints, Len(int_buffer))
    \/ OutOfBounds(LaunchWrites.strs, Len(str_buffer))
    \/ OutOfBounds(LaunchWrites.nulls, Len(str_null_pos))

\* lines 532-537: the kernel runs to completion.  A write outside its
\* buffer is undefined on the device; here it lands outside the three
\* buffers and leaves them alone.
kernel_launch ==
    /\ UNCHANGED side_vars
    /\ pc = "kernel"
    /\ oob' = (oob \/ LaunchOutOfBounds)
    /\ synced' = FALSE
    /\ UNCHANGED <<transfer_failed, buffers_live, trailer_read>>
    /\ int_buffer' = ApplyWrites(int_buffer, LaunchWrites.ints)
    /\ str_buffer' = LaunchArena
    /\ str_null_pos' = ApplyWrites(str_null_pos, LaunchWrites.nulls)
    /\ pc' = "collect"
    /\ UNCHANGED <<table, buffer, chunk_size, config, tell, remaining_data,
                   header_expected, chunk_array, field_offsets, field_lengths,
                   attempts, rows_in_chunk, results, chunk_idx, num_chunks,
                   win_start, fed, ended>>

\* lines 532-548, 613-626: the other outcome of a write outside its
\* buffer: the device reports an illegal address, the next copy_to_host
\* raises, and process_table leaves through its finally clause.
kernel_fault ==
    /\ UNCHANGED side_vars
    /\ pc = "kernel"
    /\ LaunchOutOfBounds
    /\ oob' = TRUE
    /\ synced' = FALSE
    /\ buffers_live' = FALSE
    /\ UNCHANGED <<transfer_failed, trailer_read>>
    /\ pc' = "error"
    /\ ended' = "error"
    /\ UNCHANGED <<table, buffer, chunk_size, config, tell, remaining_data,
                   header_expected, chunk_array, field_offsets, field_lengths,
                   attempts, rows_in_chunk, int_buffer, str_buffer,
                   str_null_pos, results, chunk_idx, num_chunks, win_start,
                   fed>>

\* lines 539-609: the results of the chunk are collected with
\* copy_to_host (lines 548, 559, 563); the cuda.synchronize() of line 603
\* follows the copies
collect_results ==
    /\ UNCHANGED side_vars
    /\ synced' = TRUE
    /\ UNCHANGED <<oob, transfer_failed, buffers_live, trailer_read>>
    /\ pc = "collect"
    /\ results' =
         [c \in 1..num_cols |->
            results[c] \o CollectColumn(int_buffer, str_buffer, str_null_pos,
                                        ColTypes(columns), ColLengths(columns),
                                        rows_in_chunk, c - 1)]
    /\ chunk_idx' = chunk_idx + 1
    /\ pc' = NextChunk(chunk_idx)
    /\ ended' = IF NextChunk(chunk_idx) = "final" THEN "limit" ELSE ended
    /\ UNCHANGED <<table, buffer, chunk_size, config, tell, remaining_data,
                   header_expected, chunk_array, field_offsets, field_lengths,
                   attempts, rows_in_chunk, int_buffer, str_buffer,
                   str_null_pos, num_chunks, win_start, fed>>

\* lines 611-637: the buffers, allocated once at line 484, are released
\* and the results returned
finalize ==
    /\ UNCHANGED side_vars
    /\ synced' = TRUE
    /\ buffers_live' = FALSE
    /\ UNCHANGED <<oob, transfer_failed, trailer_read>>
    /\ pc = "final"
    /\ pc' = "done"
    /\ UNCHANGED <<table, buffer, chunk_size, config, tell, remaining_data,
                   header_expected, chunk_array, field_offsets, field_lengths,
                   attempts, rows_in_chunk, int_buffer, str_buffer,
                   str_null_pos, results, chunk_idx, num_chunks, win_start,
                   fed, ended>>

Next ==
    \/ process_table_begin
    \/ read_begin
    \/ parse_attempt
    \/ cap_and_transfer
    \/ kernel_launch
    \/ kernel_fault
    \/ collect_results
    \/ finalize

Spec == Init /\ [][Next]_vars

----------------------------------------------------------------------------
(* The same processor when a transfer to the device can fail.              *)

\* lines 434-447 and 512-514: cuda.to_device raises CudaAPIError, which
\* _read_and_parse_chunk prints and raises again; the except clause of
\* process_table prints it and continues with the next chunk_idx.  The
\* carry-over stored at line 408 stays.
transfer_error ==
    /\ UNCHANGED side_vars
    /\ pc = "cap"
    /\ Len(field_offsets) > 0
    /\ transfer_failed' = TRUE
    /\ chunk_idx' = chunk_idx + 1
    /\ pc' = NextChunk(chunk_idx)
    /\ ended' = IF NextChunk(chunk_idx) = "final" THEN "limit" ELSE ended
    /\ UNCHANGED <<table, buffer, chunk_size, config, tell, remaining_data,
                   header_expected, chunk_array, field_offsets, field_lengths,
                   attempts, rows_in_chunk, int_buffer, str_buffer,
                   str_null_pos, results, num_chunks, win_start, fed, oob,
                   buffers_live, synced, trailer_read>>

NextFaults == Next \/ transfer_error

SpecFaults == Init /\ [][NextFaults]_vars

----------------------------------------------------------------------------
(* The same processor over schemas of every type name and declared length  *)
(* tried, unsupported type names among them, for tables of one row of      *)
(* NULLs read in one window.                                               *)

TypesTried ==
    {"integer", "numeric", "decimal", "character", "character varying",
     "text", "bigint", "boolean"}

\* the largest declared length tried; 0 stands for no declared length
MaxDeclaredLength == 2

ColumnsTried ==
    {Col(t, l) : t \in TypesTried, l \in 0..MaxDeclaredLength}

NullRow(n) == [c \in 1..n |-> NullField]

LayoutTables ==
    {[columns |-> <<a>>, rows |-> <<NullRow(1)>>, ext |-> <<>>]
        : a \in ColumnsTried}
    \cup {[columns |-> <<a, b>>, rows |-> <<NullRow(2)>>, ext |-> <<>>]
             : a \in ColumnsTried, b \in ColumnsTried}

InitLayout ==
    /\ table \in LayoutTables
    /\ buffer = EncodeStream(table)
    /\ chunk_size = MaxChunkSize
    /\ config = ChunkConfig(Len(table.rows), MaxRowsCap)
    /\ pc = "start"
    /\ tell = 0
    /\ remaining_data = <<>>
    /\ header_expected = TRUE
    /\ chunk_array = <<>>
    /\ field_offsets = <<>>
    /\ field_lengths = <<>>
    /\ attempts = 0
    /\ rows_in_chunk = 0
    /\ int_buffer = <<>>
    /\ str_buffer = <<>>
    /\ str_null_pos = <<>>
    /\ results = <<>>
    /\ chunk_idx = 0
    /\ num_chunks = 0
    /\ win_start = 0
    /\ fed = <<>>
    /\ ended = "running"
    /\ oob = FALSE
    /\ transfer_failed = FALSE
    /\ buffers_live = FALSE
    /\ synced = TRUE
    /\ trailer_read = "no"
    /\ SideIdle

SpecLayout == InitLayout /\ [][Next]_vars

----------------------------------------------------------------------------
(* One launch of decode_all_columns_kernel, worker by worker, for grids of  *)
(* every size tried and row counts below and above the number of workers.  *)
(* The span arrays hold kernel_rows x kernel_cols entries, as               *)
(* _read_and_parse_chunk leaves them (lines 431-432).                       *)

\* the largest gridDim.x, blockDim.x, chunk_size and num_cols tried
MaxGridSize == 2

MaxBlockSize == 2

MaxKernelRows == 5

MaxKernelCols == 2

\* a first row that leaves the block out
first_row_of_thread(block_id, threads, thread_id) == thread_id

\* line 172: the row a worker begins with
FirstRow(block_id, threads, thread_id) == block_id * threads + thread_id

\* line 175
Stride(threads, blocks) == threads * blocks

\* the workers <<block_id, thread_id>> of the grid
Workers == (0..(grid_size - 1)) \X (0..(block_size - 1))

\* the processor is not running: only the launch is followed
HostIdle ==
    /\ table = TableHello
    /\ buffer = <<>>
    /\ chunk_size = 1
    /\ config = ChunkConfig(1, 1)
    /\ pc = "launched"
    /\ tell = 0
    /\ remaining_data = <<>>
    /\ header_expected = TRUE
    /\ chunk_array = <<>>
    /\ field_offsets = <<>>
    /\ field_lengths = <<>>
    /\ attempts = 0
    /\ rows_in_chunk = 0
    /\ int_buffer = <<>>
    /\ str_buffer = <<>>
    /\ str_null_pos = <<>>
    /\ results = <<>>
    /\ chunk_idx = 0
    /\ num_chunks = 0
    /\ win_start = 0
    /\ fed = <<>>
    /\ ended = "running"
    /\ oob = FALSE
    /\ transfer_failed = FALSE
    /\ buffers_live = FALSE
    /\ synced = TRUE
    /\ trailer_read = "no"

host_vars ==
    <<table, buffer, chunk_size, config, pc, tell, remaining_data,
      header_expected, chunk_array, field_offsets, field_lengths, attempts,
      rows_in_chunk, int_buffer, str_buffer, str_null_pos, results,
      chunk_idx, num_chunks, win_start, fed, ended, oob, transfer_failed,
      buffers_live, synced, trailer_read>>

\* lines 166-172: every worker of the grid computes its first row
InitStride ==
    /\ HostIdle
    /\ CopyIdle
    /\ SizingIdle
    /\ SegmentIdle
    /\ MainIdle
    /\ RangeIdle
    /\ grid_size \in 1..MaxGridSize
    /\ block_size \in 1..MaxBlockSize
    /\ kernel_rows \in 0..MaxKernelRows
    /\ kernel_cols \in 1..MaxKernelCols
    /\ worker_row = [w \in Workers |-> FirstRow(w[1], block_size, w[2])]
    /\ visits = <<>>

\* lines 177-181: the cells of a row that the for loop processes; the loop
\* returns at the first field index outside the span arrays
RowCells(row) ==
    {<<row, col>> : col \in {c \in 0..(kernel_cols - 1) : row * kernel_cols + c < kernel_rows * kernel_cols}}

\* lines 176-239: one turn of the while loop of worker w
worker_visit(w) ==
    /\ pc = "launched"
    /\ worker_row[w] < kernel_rows
    /\ visits' = [c \in DOMAIN visits \cup RowCells(worker_row[w]) |->
                     IF c \in RowCells(worker_row[w])
                     THEN IF c \in DOMAIN visits
                          THEN Append(visits[c], w) ELSE <<w>>
                     ELSE visits[c]]
    /\ worker_row' = [worker_row EXCEPT
                         ![w] = @ + Stride(block_size, grid_size)]
    /\ UNCHANGED <<grid_size, block_size, kernel_rows, kernel_cols>>
    /\ UNCHANGED <<host_vars, copy_vars, sizing_vars, segment_vars, main_vars, range_vars>>

NextStride == \E w \in Workers : worker_visit(w)

SpecStride == InitStride /\ [][NextStride]_vars

----------------------------------------------------------------------------
(* The block copy of one text cell, lines 206-212, group by group, for      *)
(* fields and columns of every size tried, sizes above 64 and sizes that   *)
(* are no multiple of 8 among them.                                        *)

\* the longest field and the widest column tried
MaxCopyLength == 67

MaxCopyWidth == 66

\* bytes that differ from their neighbours, some with the top bit set
TestBytes(n) == [k \in 1..n |-> (k * 37 + 201) % 256]

\* lines 199-207: the copy of a cell is about to begin; the field lies at
\* copy_pos of raw_data, the slot at copy_dst_pos of a zeroed arena that
\* goes on for 8 bytes behind the slot
InitCopy ==
    /\ HostIdle
    /\ StrideIdle
    /\ SizingIdle
    /\ SegmentIdle
    /\ MainIdle
    /\ RangeIdle
    /\ copy_length \in 0..MaxCopyLength
    /\ copy_width \in 1..MaxCopyWidth
    /\ copy_pos \in {0, 3}
    /\ copy_dst_pos \in {0, 5}
    /\ copy_src = TestBytes(copy_pos + copy_length + 2)
    /\ copy_dst = Zeros(copy_dst_pos + copy_width + 8)
    /\ copy_i = 0
    /\ copy_written = {}

\* line 207
ValidLength == Min(copy_length, copy_width)

\* lines 210-212: one turn of the for loop over the 64-byte groups
copy_group ==
    /\ pc = "launched"
    /\ copy_src # <<>>
    /\ copy_i < ValidLength
    /\ LET copy_size == Min(64, ValidLength - copy_i)
           writes == bulk_copy_64bytes(copy_src, copy_pos + copy_i,
                                       copy_dst_pos + copy_i, copy_size)
       IN  /\ copy_dst' = ApplyWrites(copy_dst, writes)
           /\ copy_written' = copy_written \cup {w[1] : w \in writes}
    /\ copy_i' = copy_i + 64
    /\ UNCHANGED <<copy_src, copy_pos, copy_length, copy_width, copy_dst_pos>>
    /\ UNCHANGED <<host_vars, stride_vars, sizing_vars, segment_vars, main_vars, range_vars>>

NextCopy == copy_group

SpecCopy == InitCopy /\ [][NextCopy]_vars

----------------------------------------------------------------------------
(* The read size of process_table, lines 465-480, for streams of a few     *)
(* large rows, so that rows_per_chunk x row size lies below, inside and    *)
(* above the range of 512 KiB to 2 MiB.                                    *)

\* the most rows and columns tried
MaxSizingRows == 4

MaxSizingCols == 3

\* the row sizes tried are the multiples of RowBytesStep up to
\* MaxRowBytesSteps of them
RowBytesStep == 50000

MaxRowBytesSteps == 12

\* line 473
MinChunkBytes == 512 * 1024

\* line 475
MaxChunkBytes == 2 * 1024 * 1024

\* int.bit_length() of n >= 0
RECURSIVE BitLength(_)
BitLength(n) == IF n <= 0 THEN 0 ELSE 1 + BitLength(n \div 2)

\* 1 << k
RECURSIVE ShiftOne(_)
ShiftOne(k) == IF k <= 0 THEN 1 ELSE 2 * ShiftOne(k - 1)

\* line 465: the bytes of a stream of rows tuples of row_bytes bytes each,
\* with its 19 bytes of prologue and 2 of trailer
TotalSize(rows, row_bytes) == 19 + rows * row_bytes + 2

\* lines 469-479: chunk_size of process_table
ChunkBytes(total_size, n_cols, rows_per_chunk) ==
    LET avg_row_size == total_size \div n_cols
        base_chunk_size == avg_row_size * rows_per_chunk
    IN  IF base_chunk_size < MinChunkBytes THEN MinChunkBytes
        ELSE IF base_chunk_size > MaxChunkBytes THEN MaxChunkBytes
        ELSE ShiftOne(BitLength(base_chunk_size - 1))

InitSizing ==
    /\ HostIdle
    /\ KernelIdle
    /\ SegmentIdle
    /\ MainIdle
    /\ RangeIdle
    /\ sz_total_rows \in 1..MaxSizingRows
    /\ sz_row_bytes \in {k * RowBytesStep : k \in 1..MaxRowBytesSteps}
    /\ sz_num_cols \in 1..MaxSizingCols
    /\ sz_chunk_size = 0

\* lines 465-480
compute_chunk_size ==
    /\ pc = "launched"
    /\ sz_total_rows > 0
    /\ sz_chunk_size = 0
    /\ sz_chunk_size' =
           ChunkBytes(TotalSize(sz_total_rows, sz_row_bytes), sz_num_cols,
                      ChunkConfig(sz_total_rows, 4096).rows_per_chunk)
    /\ UNCHANGED <<sz_total_rows, sz_row_bytes, sz_num_cols>>
    /\ UNCHANGED <<host_vars, kernel_vars, segment_vars, main_vars, range_vars>>

NextSizing == compute_chunk_size

SpecSizing == InitSizing /\ [][NextSizing]_vars

----------------------------------------------------------------------------
(* One call of parse_binary_chunk on a window that need not be well formed, *)
(* tuple by tuple: lines 263-302, without the prologue (header_expected is *)
(* False, pos begins at 0).  The windows are all byte strings up to a      *)
(* length over bytes that make the field counts 0, 1, -1 and -6 and the    *)
(* lengths -1, -6 and other negative and positive numbers.                 *)

\* the longest window tried
MaxWindowLength == 6

WindowBytes == {0, 1, 250, 255}

WindowsOfLength(n) == [1..n -> WindowBytes]

InitSegment ==
    /\ HostIdle
    /\ KernelIdle
    /\ SizingIdle
    /\ MainIdle
    /\ RangeIdle
    /\ \E n \in 0..MaxWindowLength : seg_window \in WindowsOfLength(n)
    /\ seg_pos = 0
    /\ seg_state = "run"

\* lines 272-300: the fields of the tuple whose field count lies at pos
TupleFields(a, pos) ==
    ParseFields(a, AsInt16(At(a, pos), At(a, pos + 1)), pos + 2, <<>>, <<>>,
                65536)

\* lines 263-300: one turn of the while loop that goes on to the next
seg_tuple ==
    /\ seg_state = "run"
    /\ seg_pos + 2 <= Len(seg_window)
    /\ InArray(seg_window, seg_pos)
    /\ AsInt16(At(seg_window, seg_pos), At(seg_window, seg_pos + 1)) # -1
    /\ LET r == TupleFields(seg_window, seg_pos)
       IN  /\ seg_pos' = r.pos
           /\ seg_state' = IF r.st # "ok" THEN "undefined"
                            ELSE IF r.ret THEN "done" ELSE "run"
    /\ UNCHANGED seg_window
    /\ UNCHANGED <<host_vars, kernel_vars, sizing_vars, main_vars, range_vars>>

\* lines 263-267 and 302: the loop ends at the end of the window or on
\* the field count -1; a negative pos outside the array is read
seg_exit ==
    /\ seg_state = "run"
    /\ IF seg_pos + 2 <= Len(seg_window) /\ InArray(seg_window, seg_pos)
       THEN AsInt16(At(seg_window, seg_pos), At(seg_window, seg_pos + 1)) = -1
       ELSE TRUE
    /\ seg_state' = IF seg_pos + 2 <= Len(seg_window)
                       /\ ~InArray(seg_window, seg_pos)
                    THEN "undefined" ELSE "done"
    /\ UNCHANGED <<seg_window, seg_pos>>
    /\ UNCHANGED <<host_vars, kernel_vars, sizing_vars, main_vars, range_vars>>

NextSegment == seg_tuple \/ seg_exit

SpecSegment == InitSegment /\ [][NextSegment]_vars

----------------------------------------------------------------------------
(* The device buffer sets of PgGpuProcessor (src/src/main.py): one call of *)
(* process_table_chunk (lines 35-158) or of _process_data_in_chunks (lines *)
(* 160-268).  The memory manager, the parser and the decoder are other     *)
(* modules; a call of theirs returns or raises.  A buffer set is counted   *)
(* when initialize_device_buffers returns it and when cleanup_buffers is   *)
(* given it.                                                               *)

\* the largest chunk_size, column count and total_rows tried
MaxMainChunkSize == 4
MaxMainCols == 2
MaxMainRows == 4

InitMain ==
    /\ HostIdle
    /\ KernelIdle
    /\ SizingIdle
    /\ SegmentIdle
    /\ RangeIdle
    /\ main_method \in {"chunk", "chunks"}
    /\ main_pc = "start"
    /\ main_chunk_size \in 1..MaxMainChunkSize
    /\ IF main_method = "chunk"
       THEN /\ main_num_columns \in 0..MaxMainCols
            /\ main_total_rows = 0
       ELSE /\ main_num_columns \in 1..MaxMainCols
            /\ main_total_rows \in 0..MaxMainRows
    /\ main_rows_in_chunk = 0
    /\ main_obtained = 0
    /\ main_cleaned = 0

MainFixed == <<main_method, main_num_columns, main_chunk_size, main_total_rows>>

\* lines 46-76: a table without columns raises ValueError; otherwise the
\* data is fetched and the buffers are initialized
chunk_begin ==
    /\ main_method = "chunk" /\ main_pc = "start"
    /\ IF main_num_columns = 0
       THEN /\ main_pc' = "raised"
            /\ UNCHANGED main_obtained
       ELSE /\ main_pc' = "parse"
            /\ main_obtained' = main_obtained + 1
    /\ UNCHANGED <<MainFixed, main_rows_in_chunk, main_cleaned>>
    /\ UNCHANGED <<host_vars, kernel_vars, sizing_vars, segment_vars, range_vars>>

\* lines 78-92: parse_chunk returns rows, at most max_rows = chunk_size
chunk_parse_rows ==
    /\ main_method = "chunk" /\ main_pc = "parse"
    /\ \E rows \in 1..main_chunk_size : main_rows_in_chunk' = rows
    /\ main_pc' = "decode"
    /\ UNCHANGED <<MainFixed, main_obtained, main_cleaned>>
    /\ UNCHANGED <<host_vars, kernel_vars, sizing_vars, segment_vars, range_vars>>

\* lines 78-90: parse_chunk returns no row and the method returns None
chunk_parse_empty ==
    /\ main_method = "chunk" /\ main_pc = "parse"
    /\ main_rows_in_chunk' = 0
    /\ main_pc' = "returned"
    /\ UNCHANGED <<MainFixed, main_obtained, main_cleaned>>
    /\ UNCHANGED <<host_vars, kernel_vars, sizing_vars, segment_vars, range_vars>>

\* lines 78-86 and 156-158: parse_chunk raises; the outer except clause
\* raises again
chunk_parse_error ==
    /\ main_method = "chunk" /\ main_pc = "parse"
    /\ main_pc' = "raised"
    /\ UNCHANGED <<MainFixed, main_rows_in_chunk, main_obtained, main_cleaned>>
    /\ UNCHANGED <<host_vars, kernel_vars, sizing_vars, segment_vars, range_vars>>

\* lines 98-154: the chunk is decoded, the finally clause of lines 134-148
\* cleans the buffers up, and the results are returned
chunk_decode ==
    /\ main_method = "chunk" /\ main_pc = "decode"
    /\ main_cleaned' = main_cleaned + 1
    /\ main_pc' = "returned"
    /\ UNCHANGED <<MainFixed, main_rows_in_chunk, main_obtained>>
    /\ UNCHANGED <<host_vars, kernel_vars, sizing_vars, segment_vars, range_vars>>

\* lines 98-148 and 156-158: the transfer, the decoder or the output
\* handler raises; the finally clause cleans the buffers up and the
\* exception leaves the method
chunk_decode_error ==
    /\ main_method = "chunk" /\ main_pc = "decode"
    /\ main_cleaned' = main_cleaned + 1
    /\ main_pc' = "raised"
    /\ UNCHANGED <<MainFixed, main_rows_in_chunk, main_obtained>>
    /\ UNCHANGED <<host_vars, kernel_vars, sizing_vars, segment_vars, range_vars>>

\* lines 172-194 and 264-268: the loop test with processed_rows = 0; no
\* rows to process returns the empty results
chunks_begin ==
    /\ main_method = "chunks" /\ main_pc = "start"
    /\ IF 0 < main_total_rows
       THEN /\ main_pc' = "allocate"
            /\ main_rows_in_chunk' = Min(main_chunk_size, main_total_rows - 0)
       ELSE /\ main_pc' = "returned"
            /\ UNCHANGED main_rows_in_chunk
    /\ UNCHANGED <<MainFixed, main_obtained, main_cleaned>>
    /\ UNCHANGED <<host_vars, kernel_vars, sizing_vars, segment_vars, range_vars>>

\* lines 196-201: the buffers of the chunk are initialized and
\* NotImplementedError is raised, outside the try statement of line 218;
\* lines 203-262 are never run
chunks_allocate ==
    /\ main_method = "chunks" /\ main_pc = "allocate"
    /\ main_obtained' = main_obtained + 1
    /\ main_pc' = "raised"
    /\ UNCHANGED <<MainFixed, main_rows_in_chunk, main_cleaned>>
    /\ UNCHANGED <<host_vars, kernel_vars, sizing_vars, segment_vars, range_vars>>

NextMain ==
    \/ chunk_begin
    \/ chunk_parse_rows
    \/ chunk_parse_empty
    \/ chunk_parse_error
    \/ chunk_decode
    \/ chunk_decode_error
    \/ chunks_begin
    \/ chunks_allocate

SpecMain == InitMain /\ [][NextMain]_vars

----------------------------------------------------------------------------
(* One string range from the kernel to the host: the range valid_start,    *)
(* valid_end that the trimming of lines 214-229 leaves in a column of      *)
(* width max_length is packed into str_null_pos (lines 232-236) and        *)
(* unpacked by the collection step (lines 568-574).  The widths and the    *)
(* range ends are taken around the powers of two that matter to 16 and 32  *)
(* bits.                                                                   *)

\* the widest column tried
MaxRangeWidth == 65537

RangePoints ==
    {0, 1, 2, 15, 16, 255, 256, 32767, 32768, 32769, 65535, 65536, 65537}
        \cap (0..MaxRangeWidth)

InitRange ==
    /\ HostIdle
    /\ KernelIdle
    /\ SizingIdle
    /\ SegmentIdle
    /\ MainIdle
    /\ rng_width \in RangePoints \ {0}
    /\ rng_end \in {e \in RangePoints : e <= rng_width}
    /\ rng_start \in {b \in RangePoints : b <= rng_end}
    /\ rng_stored = 0
    /\ rng_result = <<>>
    /\ rng_pc = "kernel"

\* lines 232-236: the range is stored, or 0 when it is empty
range_pack ==
    /\ rng_pc = "kernel"
    /\ rng_stored' = IF rng_end > rng_start
                     THEN PackRange(rng_start, rng_end) ELSE 0
    /\ rng_pc' = "host"
    /\ UNCHANGED <<rng_width, rng_start, rng_end, rng_result>>
    /\ UNCHANGED <<host_vars, kernel_vars, sizing_vars, segment_vars, main_vars>>

\* lines 568-574: start_pos and end_pos of the host for the entry end_pos
\* of null_positions; <<>> when the entry is 0 or negative
UnpackRange(end_pos) ==
    IF end_pos = 0 THEN <<>>
    ELSE IF end_pos > 0
    THEN <<(end_pos \div 65536) % 65536, end_pos % 65536>>
    ELSE <<>>

\* lines 566-574: the host reads the entry
range_unpack ==
    /\ rng_pc = "host"
    /\ rng_result' = UnpackRange(rng_stored)
    /\ rng_pc' = "done"
    /\ UNCHANGED <<rng_width, rng_start, rng_end, rng_stored>>
    /\ UNCHANGED <<host_vars, kernel_vars, sizing_vars, segment_vars, main_vars>>

NextRange == range_pack \/ range_unpack

SpecRange == InitRange /\ [][NextRange]_vars

----------------------------------------------------------------------------
(* Properties of process_table and of its parts.                           *)

\* the stream is the valid encoding of the table
ValidStream == buffer = EncodeStream(table)

NumRows == Len(table.rows)

\* the fields of the table in stream order
RECURSIVE Flatten(_)
Flatten(rows) ==
    IF rows = <<>> THEN <<>> ELSE Head(rows) \o Flatten(Tail(rows))

AllFields == Flatten(table.rows)

\* the offset in a valid stream of the field count of tuple i (1-based);
\* TupleStart(NumRows + 1) is the offset of the trailer
TupleStart(i) ==
    Len(Prologue(table.ext)) + Len(EncodeTuples(SubSeq(table.rows, 1, i - 1)))

\* the offset in a valid stream of the data of field k of tuple i
FieldDataStart(i, k) ==
    TupleStart(i) + 2 + Len(EncodeFields(SubSeq(table.rows[i], 1, k - 1))) + 4

\* the whole stream was read in one window and the row ceiling does not
\* bind: what process_table does on a small table
OneWindow ==
    chunk_size >= Len(buffer) /\ config.rows_per_chunk >= NumRows

\* the value a numeric field stands for: 0 for NULL, else the big-endian
\* two's-complement value of its 4 bytes
ExpectedNumber(f) ==
    IF f = NullField THEN 0 ELSE AsInt32(f[1], f[2], f[3], f[4])

\* bytes up to the first zero byte
RECURSIVE CutAtZero(_)
CutAtZero(s) ==
    IF s = <<>> \/ Head(s) = 0 THEN <<>>
    ELSE <<Head(s)>> \o CutAtZero(Tail(s))

\* bytes <= 32 removed from both ends
RECURSIVE TrimBlank(_)
TrimBlank(s) ==
    IF s = <<>> THEN s
    ELSE IF Head(s) <= 32 THEN TrimBlank(Tail(s))
    ELSE IF s[Len(s)] <= 32 THEN TrimBlank(SubSeq(s, 1, Len(s) - 1))
    ELSE s

\* the string a text field stands for in a column of the given width
ExpectedText(f, width) ==
    IF f = NullField THEN <<>>
    ELSE TrimBlank(SelectSeq(
             TrimBlank(CutAtZero(SubSeq(f, 1, Min(Len(f), width)))),
             IsPrintable))

ExpectedValue(f, c) ==
    IF ColTypes(columns)[c] <= 1 THEN ExpectedNumber(f)
    ELSE ExpectedText(f, ColLengths(columns)[c])

\* the value the kernel and the host make of field f of column c when the
\* field is decoded alone, as the only cell of a one-column chunk
DecodedAlone(f, c) ==
    LET raw == IF f = NullField THEN <<>> ELSE f
        lens == <<IF f = NullField THEN -1 ELSE Len(f)>>
        types == <<ColTypes(columns)[c]>>
        widths == <<ColLengths(columns)[c]>>
        w == KernelWrites(raw, <<0>>, lens, types, widths, 1, 1)
    IN  CollectColumn(ApplyWrites(<<0>>, w.ints),
                      ApplyWrites(Zeros(widths[1]), w.strs),
                      ApplyWrites(<<0>>, w.nulls), types, widths, 1, 0)[1]

\* the segmenter handed the kernel exactly the fields of the table, in
\* order
FedInOrder == fed = AllFields

\* the fields handed to the kernel so far are the first fields of the
\* table, in order
FedPrefix ==
    Len(fed) <= Len(AllFields) /\ fed = SubSeq(AllFields, 1, Len(fed))

\* the rows handed to the kernel so far
RowsFed == Len(fed) \div num_cols

----------------------------------------------------------------------------
(* C1.  For a valid stream, whatever the read size and the row ceiling,    *)
(* the spans handed to the kernel over all chunks number rows x columns.   *)
C1_AllSpansCounted ==
    (pc = "done" /\ ValidStream) => Len(fed) = NumRows * num_cols

(* C2.  A valid stream delivered in two read blocks yields the same rows   *)
(* as the same bytes in a single window.  Stated where nothing but the     *)
(* split differs: the row ceiling does not bind and the chunk loop ended   *)
(* because the reader returned None.                                       *)
SingleWindowFields ==
    LET r == parse_binary_chunk(buffer, TRUE)
        rows == Min(Len(r.offs) \div num_cols, config.rows_per_chunk)
    IN  [k \in 1..(rows * num_cols) |->
            FieldContent(buffer, r.offs[k], r.lens[k])]

C2_SplitWindowSameRows ==
    (/\ pc = "done" /\ ValidStream /\ ended = "nodata"
     /\ config.rows_per_chunk >= NumRows
     /\ chunk_size < Len(buffer) /\ Len(buffer) <= 2 * chunk_size)
    => fed = SingleWindowFields

(* C3.  Round trip: process_table returns, for every row and column, the   *)
(* original integer or the original text trimmed and filtered; the stream  *)
(* of the one row (42, "hello") yields 42 and "hello".  The general part   *)
(* is stated for the runs in which every kernel write lay inside its       *)
(* buffer.                                                                 *)
ExpectedResults ==
    [c \in 1..num_cols |->
        [i \in 1..NumRows |-> ExpectedValue(table.rows[i][c], c)]]

C3_RoundTrip ==
    (pc = "done" /\ ValidStream /\ OneWindow) =>
        /\ ~oob => results = ExpectedResults
        /\ table = TableHello => results = << <<42>>, <<TxtHello>> >>

(* C4.  Decode preserves order: the values decoded from the i-th tuple are *)
(* at index i of every column's output, and the columns are equally long.  *)
(* Stated for the schemas whose columns are all numeric or all text, where *)
(* the kernel and the host agree on the place of every column.             *)
SameKindColumns ==
    \A c \in 1..num_cols : ColTypes(columns)[c] <= 1 <=> ColTypes(columns)[1] <= 1

C4_OrderPreserved ==
    (pc = "done" /\ ValidStream /\ SameKindColumns) =>
        \A c \in 1..num_cols :
            /\ Len(results[c]) = Len(results[1])
            /\ Len(results[c]) <= NumRows
            /\ \A i \in 1..Len(results[c]) :
                   results[c][i] = DecodedAlone(table.rows[i][c], c)

(* C5.  The span arrays the segmenter returns for a window hold whole rows *)
(* only: their length is a multiple of the number of columns.  Stated for  *)
(* the first window of a valid stream.                                     *)
FirstWindowParsed ==
    pc = "cap" /\ chunk_idx = 0 /\ attempts = 0 /\ ValidStream

C5_WholeRowsOnly ==
    FirstWindowParsed => Len(field_offsets) % num_cols = 0

(* C6.  When the window ends inside the data of a field, nothing of that   *)
(* tuple is consumed and the carry-over begins at the tuple's field count. *)
(* Stated where the last span returned has data, so that the end of the    *)
(* last span is a place after the spans returned.                          *)
WindowCutsTuple(i) ==
    \E k \in 1..num_cols :
        /\ table.rows[i][k] # NullField
        /\ FieldDataStart(i, k) <= tell
        /\ tell < FieldDataStart(i, k) + Len(table.rows[i][k])

LastSpanHasData ==
    field_lengths # <<>> /\ field_lengths[Len(field_lengths)] # -1

C6_CarryStartsAtTuple ==
    \A i \in 1..NumRows :
        (FirstWindowParsed /\ WindowCutsTuple(i) /\ LastSpanHasData) =>
            /\ Len(field_offsets) = (i - 1) * num_cols
            /\ win_start + Len(chunk_array) - Len(remaining_data)
                 = TupleStart(i)

(* C7.  A first window that does not begin with the signature is a framing *)
(* error: no span comes of it, nothing is retried, the run aborts.  Stated *)
(* for a first window long enough to hold a signature.                     *)
SignatureMissing ==
    /\ Len(buffer) >= 11 /\ chunk_size >= 11
    /\ SubSeq(buffer, 1, 11) # PGCOPY_HEADER

C7_MissingSignatureAborts ==
    SignatureMissing =>
        /\ field_offsets = <<>>
        /\ attempts = 0
        /\ pc # "done"

(* C8.  A NULL field decodes in the final result to 0 in a numeric column  *)
(* and to the empty string in a text column, and the other fields of its   *)
(* row decode as they do without it.  Stated for the rows handed to the    *)
(* kernel, in the runs in which the segmenter handed over the fields of    *)
(* the table in order and every kernel write lay inside its buffer.        *)
C8_NullDecodes ==
    (pc = "done" /\ ValidStream /\ FedPrefix /\ ~oob) =>
        \A i \in 1..RowsFed : \A c \in 1..num_cols :
            (\E d \in 1..num_cols : table.rows[i][d] = NullField) =>
                /\ Len(results[c]) >= i
                /\ results[c][i] = DecodedAlone(table.rows[i][c], c)
                /\ table.rows[i][c] = NullField =>
                       results[c][i] = IF ColTypes(columns)[c] <= 1 THEN 0
                                       ELSE <<>>

(* C9.  Every non-NULL text field decodes to its first min(length, width)  *)
(* bytes cut at the first zero byte, trimmed of bytes <= 32 and filtered   *)
(* to printable ASCII.  Stated for the rows handed to the kernel, in the   *)
(* runs in which the segmenter handed over the fields of the table in      *)
(* order and every kernel write lay inside its buffer.                     *)
C9_TextDecodes ==
    (pc = "done" /\ ValidStream /\ FedPrefix /\ ~oob) =>
        \A i \in 1..RowsFed : \A c \in 1..num_cols :
            (ColTypes(columns)[c] = 2 /\ table.rows[i][c] # NullField) =>
                /\ Len(results[c]) >= i
                /\ results[c][i] =
                     ExpectedText(table.rows[i][c], ColLengths(columns)[c])

(* C10.  decode_int32 returns, for 4 bytes inside the window, their        *)
(* big-endian two's-complement value, and the kernel stores that value for *)
(* a non-NULL numeric field.  Stated for the 4 bytes of the numeric fields *)
(* of the chunk at hand.                                                   *)
C10_DecodeInt32TwosComplement ==
    (pc = "kernel" /\ ValidStream) =>
        \A row \in 0..(rows_in_chunk - 1) : \A col \in 0..(num_cols - 1) :
            LET idx == row * num_cols + col
                p == At(field_offsets, idx)
                v == AsInt32(At(chunk_array, p), At(chunk_array, p + 1),
                             At(chunk_array, p + 2), At(chunk_array, p + 3))
            IN  (ColTypes(columns)[col + 1] <= 1 /\ At(field_lengths, idx) = 4) =>
                    /\ decode_int32(chunk_array, p) = v
                    /\ \A w \in LaunchWrites.ints :
                           w[1] = col * rows_in_chunk + row => w[2] = v

(* C11.  Every index the kernel writes lies inside the buffer that         *)
(* _initialize_device_buffers allocated: numeric writes inside numeric     *)
(* columns x rows, range writes inside text columns x rows, arena writes   *)
(* inside text columns x rows x widest text column.  Stated for the        *)
(* launches whose spans are the first fields of the table, in order.       *)
C11_KernelWritesInBounds ==
    (pc = "kernel" /\ ValidStream /\ FedPrefix) =>
        /\ Len(int_buffer) = config.rows_per_chunk * NumIntCols(columns)
        /\ Len(str_null_pos) = config.rows_per_chunk * NumStrCols(columns)
        /\ \A w \in LaunchWrites.ints : 0 <= w[1] /\ w[1] < Len(int_buffer)
        /\ \A w \in LaunchWrites.nulls :
               0 <= w[1] /\ w[1] < Len(str_null_pos)
        /\ \A w \in LaunchWrites.strs : 0 <= w[1] /\ w[1] < Len(str_buffer)

\* the places cell c = <<row, col>> of the launch writes: the buffer and
\* the index in it
CellPlaces(c) ==
    LET w == CellWrites(chunk_array, field_offsets, field_lengths,
                        ColTypes(columns), ColLengths(columns),
                        rows_in_chunk, num_cols, c[1], c[2])
    IN  {<<"int", x[1]>> : x \in w.ints}
          \cup {<<"str", x[1]>> : x \in w.strs}
          \cup {<<"null", x[1]>> : x \in w.nulls}

\* the cells of the launch
CellsOfLaunch == (0..(rows_in_chunk - 1)) \X (0..(num_cols - 1))

\* cells of different rows, hence possibly of different workers, write
\* different places
DifferentRowsDisjoint ==
    pc = "kernel" =>
        \A c1 \in CellsOfLaunch : \A c2 \in CellsOfLaunch :
            c1[1] # c2[1] => CellPlaces(c1) \cap CellPlaces(c2) = {}

(* C12.  Within one launch the places written for two distinct cells are   *)
(* disjoint, for every schema, text columns of different widths included.  *)
C12_CellWritesDisjoint ==
    (pc = "kernel" /\ ValidStream /\ FedPrefix) =>
        \A c1 \in CellsOfLaunch : \A c2 \in CellsOfLaunch :
            c1 # c2 => CellPlaces(c1) \cap CellPlaces(c2) = {}

\* the decode type and the width a column is to be given
ClaimedType(col) ==
    IF col.type = "integer" THEN 0
    ELSE IF col.type \in {"numeric", "decimal"} THEN 1
    ELSE 2

ClaimedWidth(col) ==
    IF col.type = "integer" THEN 4
    ELSE IF col.type \in {"numeric", "decimal"} THEN 8
    ELSE IF col.type \in {"character", "character varying"}
    THEN (IF col.length = 0 THEN 256 ELSE col.length)
    ELSE 1024

SupportedTypes ==
    {"integer", "numeric", "decimal", "character", "character varying",
     "text"}

UnsupportedColumn == \E c \in 1..num_cols : columns[c].type \notin SupportedTypes

ClaimedTextColumns == {c \in 1..num_cols : ClaimedType(columns[c]) = 2}

(* C13.  The layout resolver maps integer to type 0 and width 4, numeric   *)
(* and decimal to type 1 and width 8, the character types to type 2 and    *)
(* the declared length, or 256 when none is declared, and text to type 2   *)
(* and width 1024; the buffers process_table allocates are sized by these  *)
(* types and widths.                                                       *)
C13_LayoutResolved ==
    ~UnsupportedColumn =>
        /\ \A c \in 1..num_cols :
               /\ ColTypes(columns)[c] = ClaimedType(columns[c])
               /\ ColLengths(columns)[c] = ClaimedWidth(columns[c])
        /\ pc # "start" =>
               /\ Len(int_buffer) = config.rows_per_chunk
                      * (num_cols - Cardinality(ClaimedTextColumns))
               /\ Len(str_null_pos) =
                      config.rows_per_chunk * Cardinality(ClaimedTextColumns)
               /\ \A c \in ClaimedTextColumns :
                      Len(str_buffer) >= Len(str_null_pos)
                                           * ClaimedWidth(columns[c])
               /\ ClaimedTextColumns # {} =>
                      \E c \in ClaimedTextColumns :
                          Len(str_buffer) = Len(str_null_pos)
                                              * ClaimedWidth(columns[c])

C13_Witness ==
    /\ pc = "read"
    /\ columns = <<Col("character varying", 0), Col("text", MaxDeclaredLength)>>
    /\ ColLengths(columns) = <<256, 1024>>
    /\ Len(str_buffer) = 2048

(* C14.  A column of a type other than integer, numeric, decimal,          *)
(* character or text makes processing fail before any device buffer is     *)
(* allocated and before any data is read, segmented or transferred.        *)
C14_UnsupportedTypeFailsFirst ==
    UnsupportedColumn =>
        /\ pc \in {"start", "error"}
        /\ int_buffer = <<>> /\ str_buffer = <<>> /\ str_null_pos = <<>>
        /\ chunk_array = <<>> /\ fed = <<>> /\ results = <<>>

C14_Witness ==
    /\ pc = "error" /\ ended = "error"
    /\ columns = <<Col("text", 0), Col("bigint", 0)>>
    /\ str_buffer = <<>>

(* C15.  An error raised by a chunk's transfer to the device or by the     *)
(* kernel aborts the run: after it no further chunk is processed and no    *)
(* result is returned.                                                     *)
C15_ErrorsAbort ==
    ValidStream =>
        /\ transfer_failed => pc = "error"
        /\ ended = "error" => pc = "error"

\* the text columns of the table
TextColumns == {c \in 1..num_cols : ColTypes(columns)[c] = 2}

\* a string of printable ASCII, the empty string included
PrintableString(x) ==
    /\ x \in Seq(0..255)
    /\ \A k \in 1..Len(x) : IsPrintable(x[k])

(* C16.  Host-side collection appends exactly one string per row of the    *)
(* chunk to every text column, whatever bytes the cells hold: between      *)
(* chunks every text column holds one string of printable ASCII, possibly  *)
(* empty, for each row handed to the kernel so far.                        *)
C16_OneStringPerRow ==
    pc \in {"read", "final", "done"} =>
        \A c \in TextColumns :
            /\ c \in DOMAIN results => Len(results[c]) = RowsFed
            /\ c \in DOMAIN results =>
                   \A i \in 1..Len(results[c]) : PrintableString(results[c][i])

C16_Witness ==
    /\ pc = "done" /\ ValidStream /\ table = TableBytes
    /\ results = << << <<65>>, <<40>>, <<>> >> >>

\* C17: each chunk has its own set of device buffers: the buffers used by
\* chunk k are released before chunk k+1 begins, so whenever a further
\* chunk is about to be read after one whose results were copied back, no
\* buffer of the earlier chunk is still allocated.
C17_BuffersPerChunk ==
    (ValidStream /\ pc = "read" /\ chunk_idx >= 1 /\ fed # <<>>) => ~buffers_live

\* C18: within a chunk the host copies the results out of the device
\* buffers only after a cuda.synchronize() that follows the kernel launch:
\* every step that collects the results starts in a state where the barrier
\* has been passed since the launch.
C18_ReadAfterBarrier ==
    [][(pc = "collect" /\ pc' # "collect") => synced]_vars

\* the first window of a valid stream, about to be segmented for the first
\* time
FirstWindowRead ==
    /\ ValidStream
    /\ pc = "parse" /\ chunk_idx = 0 /\ attempts = 0 /\ header_expected
    /\ Len(chunk_array) >= 11
    /\ SubSeq(chunk_array, 1, 11) = PGCOPY_HEADER

\* the header-extension length stored at offset 15 of the stream
ExtensionLength ==
    AsInt32(At(buffer, 15), At(buffer, 16), At(buffer, 17), At(buffer, 18))

\* C19: when the first window begins with the signature, the field count
\* of the first tuple is read at offset 11 + 4 + 4 + E, E being the
\* extension length at offset 15, whatever the size of the window: a
\* field count that the segmenter reads is read there, and a window with
\* fewer than 19 + E bytes yields no span.
C19_FieldCountAfterPrologue ==
    FirstWindowRead =>
        LET start == HeaderSkip(chunk_array, header_expected)
        IN  /\ start + 2 <= Len(chunk_array) => start = 11 + 4 + 4 + ExtensionLength
            /\ Len(chunk_array) < 11 + 4 + 4 + ExtensionLength =>
                   parse_binary_chunk(chunk_array, header_expected).offs = <<>>

\* a retry of the first window of a valid stream: the earlier attempts of
\* this read returned no span and the window has been extended
FirstWindowRetried ==
    /\ ValidStream
    /\ pc = "parse" /\ chunk_idx = 0 /\ attempts >= 1
    /\ Len(chunk_array) >= 11 + 4 + 4 + ExtensionLength

\* C20: header_expected stays true until a segmentation has succeeded: when
\* the first attempt on the first window returns no span and the extended
\* window is retried, the flag is still set and the retry skips the
\* prologue.
C20_HeaderExpectedUntilSuccess ==
    FirstWindowRetried =>
        /\ header_expected
        /\ HeaderSkip(chunk_array, header_expected) = 11 + 4 + 4 + ExtensionLength

\* the whole valid stream was read as the first window, it holds more rows
\* than the row ceiling, and the ceiling has just been applied
CeilingApplied ==
    /\ ValidStream
    /\ chunk_size >= Len(buffer)
    /\ NumRows > config.rows_per_chunk
    /\ pc = "kernel" /\ chunk_idx = 0

\* C21: when the segmenter yields more complete rows than the row ceiling,
\* the carry-over kept for the next chunk begins at the end of the last
\* row kept, that is at the field count of the first row beyond the
\* ceiling.
C21_CarryAfterCeiling ==
    CeilingApplied =>
        /\ rows_in_chunk = config.rows_per_chunk
        /\ remaining_data = SliceFrom(chunk_array,
                                      TupleStart(config.rows_per_chunk + 1))

\* C22: a chunk that reaches the kernel has between 1 and rows_per_chunk
\* rows, and both span arrays given to the device hold exactly
\* rows_in_chunk x columns entries; the row count never exceeds the
\* ceiling.
C22_RowsWithinCeiling ==
    /\ rows_in_chunk <= config.rows_per_chunk
    /\ pc \in {"kernel", "collect"} =>
           /\ rows_in_chunk >= 1
           /\ Len(field_offsets) = rows_in_chunk * num_cols
           /\ Len(field_lengths) = rows_in_chunk * num_cols

\* a chunk at the kernel whose window held more rows than the ceiling
C22_Witness ==
    /\ pc = "kernel" /\ ValidStream
    /\ chunk_size >= Len(buffer)
    /\ NumRows > config.rows_per_chunk
    /\ rows_in_chunk = config.rows_per_chunk
    /\ Len(field_offsets) = rows_in_chunk * num_cols

\* C23: the window of every chunk is the carry-over of the previous chunk
\* followed by a freshly read block: a chunk that begins with carry-over,
\* while the source still has bytes, reads a block before it segments.
C23_WindowIsCarryPlusBlock ==
    [][(/\ ValidStream
        /\ pc = "read" /\ pc' = "parse"
        /\ remaining_data # <<>>
        /\ ReadAt(tell, chunk_size) # <<>>)
       => /\ chunk_array' = remaining_data \o ReadAt(tell, chunk_size)
          /\ tell' = tell + Len(ReadAt(tell, chunk_size))]_vars

\* C24: within a chunk the segmenter is called again only after a call that
\* returned no span while the source still had bytes, on the window
\* extended by one more read block; it is called at most 3 times per chunk,
\* and a chunk that ends without a span ends the processing of the table.
C24_BoundedRetry ==
    [][/\ (pc = "parse" /\ pc' = "parse") =>
              /\ field_offsets' = <<>>
              /\ ReadAt(tell, chunk_size) # <<>>
              /\ chunk_array' = chunk_array \o ReadAt(tell, chunk_size)
              /\ attempts' = attempts + 1
              /\ attempts' + 1 <= 3
       /\ (pc = "cap" /\ field_offsets = <<>>) =>
              /\ pc' = "final"
              /\ ended' = "nodata"]_vars

\* the third segmentation of a chunk is about to be made on a window that
\* was extended twice
C24_Witness ==
    /\ pc = "parse" /\ attempts = 2 /\ field_offsets = <<>>
    /\ Len(chunk_array) = 3 * chunk_size

\* C25: once a segmentation has read the field count -1 of the trailer, the
\* table yields no further rows: no chunk after the one whose window held
\* the trailer reaches the kernel.
C25_TrailerEndsTable ==
    (ValidStream /\ trailer_read = "earlier") => pc \notin {"kernel", "collect"}

\* the positions of the window at which 4 bytes can be read
LengthPositions == 0..(Len(chunk_array) - 4)

\* the 4 bytes at pos are FF FF FF FF
NullLengthAt(pos) ==
    \A i \in 0..3 : At(chunk_array, pos + i) = 255

\* C26: the segmenter reads a 4-byte field length as a big-endian
\* two's-complement integer, wherever in a window it reads it; the length
\* -1 (FF FF FF FF) is recorded as the span (0, -1) and moves the position
\* past the 4 length bytes only.
C26_FieldLengthSigned ==
    pc = "parse" =>
        \A pos \in LengthPositions :
            /\ FieldLenAt(chunk_array, pos) =
                   AsInt32(At(chunk_array, pos), At(chunk_array, pos + 1),
                           At(chunk_array, pos + 2), At(chunk_array, pos + 3))
            /\ NullLengthAt(pos) =>
                   ParseFields(chunk_array, 1, pos, <<>>, <<>>, 1) =
                       ParseResult(pos + 4, <<0>>, <<-1>>, FALSE, "ok")

\* a window that holds a NULL length and, at another place, 4 bytes that
\* stand for a negative number other than -1
C26_Witness ==
    /\ pc = "parse"
    /\ \E pos \in LengthPositions : NullLengthAt(pos)
    /\ \E pos \in LengthPositions :
           /\ At(chunk_array, pos) >= 128
           /\ ~NullLengthAt(pos)

\* the indices of the non-NULL spans of a span list
NonNullSpans(lens) == {k \in 1..Len(lens) : lens[k] # -1}

\* C27: every non-NULL span the segmenter returns lies inside the window it
\* was segmented from, and the non-NULL spans follow one another in
\* strictly increasing offsets without overlap.
C27_SpansInsideWindow ==
    (ValidStream /\ pc = "parse") =>
        LET r == parse_binary_chunk(chunk_array, header_expected)
        IN  r.st = "ok" =>
                /\ \A k \in NonNullSpans(r.lens) :
                       /\ 0 <= r.offs[k]
                       /\ r.lens[k] >= 0
                       /\ r.offs[k] + r.lens[k] <= Len(chunk_array)
                /\ \A j, k \in NonNullSpans(r.lens) :
                       j < k => /\ r.offs[j] < r.offs[k]
                                /\ r.offs[j] + r.lens[j] <= r.offs[k]

\* every worker has left its while loop
AllWorkersDone == \A w \in Workers : worker_row[w] >= kernel_rows

\* C28: for every grid and every row count, also one larger than the
\* number of workers, the stride loop has each cell (row, col) with
\* 0 <= row < chunk_size processed by one worker, once, and no worker
\* processes a row at or beyond chunk_size.
C28_StrideCoversOnce ==
    pc = "launched" =>
        /\ \A c \in DOMAIN visits :
               /\ Len(visits[c]) = 1
               /\ 0 <= c[1] /\ c[1] < kernel_rows
        /\ AllWorkersDone =>
               DOMAIN visits =
                   (0..(kernel_rows - 1)) \X (0..(kernel_cols - 1))

\* a finished launch over more rows than the grid has workers
C28_Witness ==
    /\ pc = "launched"
    /\ AllWorkersDone
    /\ grid_size >= 2 /\ block_size >= 2
    /\ kernel_rows > grid_size * block_size
    /\ DOMAIN visits = (0..(kernel_rows - 1)) \X (0..(kernel_cols - 1))

\* the for loop of line 210 has ended
CopyDone == copy_src # <<>> /\ copy_i >= ValidLength

\* C29: for a text field of length L in a column of width W, after the
\* block copy the first min(L, W) bytes of the cell's slot are the first
\* min(L, W) bytes of the field, for every size, and no byte of the arena
\* past them is written.
C29_BlockCopyExact ==
    /\ copy_written \subseteq
           {copy_dst_pos + k : k \in 0..(ValidLength - 1)}
    /\ CopyDone =>
           \A k \in 0..(ValidLength - 1) :
               /\ copy_dst_pos + k \in copy_written
               /\ At(copy_dst, copy_dst_pos + k) = At(copy_src, copy_pos + k)

\* a finished copy of more than 64 bytes whose size is no multiple of 8,
\* cut to the width of the column
C29_Witness ==
    /\ CopyDone
    /\ copy_length > copy_width
    /\ copy_width > 64 /\ copy_width % 8 # 0
    /\ copy_written = {copy_dst_pos + k : k \in 0..(copy_width - 1)}

\* n is a power of two
RECURSIVE IsPowerOfTwo(_)
IsPowerOfTwo(n) ==
    IF n <= 0 THEN FALSE
    ELSE IF n = 1 THEN TRUE
    ELSE n % 2 = 0 /\ IsPowerOfTwo(n \div 2)

\* rows_per_chunk x average row size of the stream, the average taken over
\* the rows of the table
RowsTimesAverage ==
    ChunkConfig(sz_total_rows, 4096).rows_per_chunk
        * (TotalSize(sz_total_rows, sz_row_bytes) \div sz_total_rows)

\* C30: the read size computed by process_table is a power of two from
\* 512 KiB to 2 MiB, and when rows_per_chunk x average row size lies in
\* that range it is the smallest power of two not below that product.
C30_WindowSizePowerOfTwo ==
    sz_chunk_size # 0 =>
        /\ IsPowerOfTwo(sz_chunk_size)
        /\ MinChunkBytes <= sz_chunk_size /\ sz_chunk_size <= MaxChunkBytes
        /\ (MinChunkBytes <= RowsTimesAverage /\ RowsTimesAverage <= MaxChunkBytes)
               => /\ sz_chunk_size >= RowsTimesAverage
                  /\ sz_chunk_size \div 2 < RowsTimesAverage

\* C31: parse_binary_chunk ends on every finite window, well formed or not:
\* the read position grows with every tuple processed, whatever the field
\* counts and lengths the window declares.
C31_PositionAdvances ==
    [][(seg_state = "run" /\ seg_state' = "run") => seg_pos' > seg_pos]_vars

\* the offset in the window at which the carry-over begins, when the
\* carry-over is taken as a suffix of the window
CarryStart == Len(chunk_array) - Len(remaining_data)

\* a chunk has yielded at least one row
ChunkYieldedRows == ValidStream /\ pc = "kernel" /\ rows_in_chunk >= 1

\* C32: whenever a chunk yields at least one row, the carry-over kept for
\* the next chunk is a proper suffix of the window: it is strictly shorter
\* than the window and begins after all bytes of the rows consumed, also
\* when the last field of the last row consumed is NULL.
C32_CarryIsProperSuffix ==
    ChunkYieldedRows =>
        /\ Len(remaining_data) < Len(chunk_array)
        /\ remaining_data = SliceFrom(chunk_array, CarryStart)
        /\ \A k \in 1..Len(field_offsets) :
               field_lengths[k] >= 0 =>
                   field_offsets[k] + field_lengths[k] <= CarryStart

\* lines 540-563: the slot of cell (row, col) in the host's reading: the
\* row-th entry of the slice that begins at int_col_idx * rows_in_chunk
\* for a numeric column and at str_col_idx * rows_in_chunk for a text one
HostSlot(col_types, rows, row, col) ==
    (IF At(col_types, col) <= 1 THEN IntColIdx(col_types, col)
     ELSE StrColIdx(col_types, col)) * rows + row

\* the writes of the launch for cell (row, col)
LaunchCellWrites(row, col) ==
    CellWrites(chunk_array, field_offsets, field_lengths, ColTypes(columns),
               ColLengths(columns), rows_in_chunk, num_cols, row, col)

\* the kernel writes cell (row, col) where the host reads it
CellAgrees(row, col) ==
    LET w == LaunchCellWrites(row, col)
        slot == HostSlot(ColTypes(columns), rows_in_chunk, row, col)
        length == At(ColLengths(columns), col)
    IN  /\ \A x \in w.ints \cup w.nulls : x[1] = slot
        /\ \A x \in w.strs : slot * length <= x[1] /\ x[1] < (slot + 1) * length

\* C33: device and host agree on the buffer layout: for every schema and
\* every cell (row, col), the kernel writes the cell's number, arena bytes
\* and range at the positions from which the collection step reads the
\* value it reports for column col, row row.
C33_LayoutAgreement ==
    (ValidStream /\ pc = "kernel") =>
        \A row \in 0..(rows_in_chunk - 1) : \A col \in 0..(num_cols - 1) :
            CellAgrees(row, col)

\* the method has returned or raised
MainLeft == main_pc \in {"returned", "raised"}

\* C34: in process_table_chunk and _process_data_in_chunks every buffer
\* set obtained from initialize_device_buffers has been passed to
\* cleanup_buffers when the method returns or raises, on every exit path.
C34_BuffersCleanedOnExit == MainLeft => main_cleaned = main_obtained

\* C35: the packed range round-trips: for every column width and every
\* non-empty trimmed range 0 <= start < end <= width the host's unpacking
\* of the stored value, guarded by v > 0, recovers (start, end); and the
\* stored value is 0 only for an empty range.
C35_RangeRoundTrip ==
    /\ (rng_pc = "done" /\ rng_start < rng_end) =>
           rng_result = <<rng_start, rng_end>>
    /\ (rng_pc \in {"host", "done"} /\ rng_stored = 0) =>
           ~(rng_start < rng_end)

====
